---- MODULE Spec2Model ----
(***************************************************************************)
(* Model of the swap matching engine of swap_finder.py: the shift          *)
(* taxonomy, the post-call conflict checker, the single-shift search, the  *)
(* weekend search with its classifier and ease scorer, and the trip        *)
(* coverage with its packages.  A schedule is the DataFrame of rows        *)
(* {name, date, shift}; dates are day numbers, day 0 being a Monday, so    *)
(* that weekday(d) = d % 7 as datetime.weekday() counts it.                *)
(***************************************************************************)
EXTENDS Integers, Sequences, FiniteSets, TLC

VARIABLES
    schedule,        \* the loaded schedule: a set of rows [name, date, shift]
    pc,              \* "ready" after loading, "done" after the query ran
    call,            \* the query that ran: its name and arguments
    swapResult,      \* rows returned by find_swap_candidates, in order
    weekendResult,   \* rows returned by find_weekend_swap, in order
    conflictResult,  \* value returned by has_post_call_conflict
    tripResult,      \* dict returned by find_trip_coverage
    pureArgs,        \* arguments drawn for the ease scorer or the weekend classifier
    easeResult,      \* value returned by calculate_swap_ease
    typeResult,      \* value returned by classify_weekend_type
    shiftTypeResult, \* value returned by classify_shift of get_schedule_summary
    friendsFile,     \* the document of friends.json
    ledgerFile,      \* the document of swap_ledger.json
    printed,         \* the message the last command printed
    filterResult,    \* rows returned by filter_by_friends, in order
    summaryResult    \* stats.next_golden_weekend of get_schedule_summary

vars ==
    <<schedule, pc, call, swapResult, weekendResult, conflictResult, tripResult,
      pureArgs, easeResult, typeResult, shiftTypeResult, friendsFile, ledgerFile,
      printed, filterResult, summaryResult>>

---------------------------------------------------------------------------
(* Shift taxonomy: the module-level sets of swap_finder.py *)

NIGHT_CALL_SHIFTS ==
    { "CA CLI Night Call", "CA Senior Night Call",
      "CA GOR1 Night Call", "CA GOR2 Night Call",
      "CA CART Night Call", "CA CV Call",
      "CA COMER Call", "CA ICU Call",
      "CA Northshore Call" }

CALL_SHIFTS ==
    { "CA CLI Day Call", "CA CLI Night Call",
      "CA Senior Night Call",
      "CA GOR1 Night Call", "CA GOR2 Night Call",
      "CA CART Night Call", "CA CV Call",
      "CA COMER Call", "CA ICU Call",
      "CA Northshore Call" }

ICU_SHIFTS ==
    { "CA CTICU", "CA SICU", "CA ICU Call", "CA ICU 3 Elective" }

VACATION_SHIFTS ==
    { "CA Vacation", "CA Vacation Week" }

DAY_SHIFTS ==
    { "CA GOR", "CA GOR-Block", "CA AMB", "CA AMB- Block",
      "CA OB", "CA OB3", "CA PEDS", "CA Ortho",
      "CA CTICU", "CA SICU", "CA CV Cardiac", "CA CV-3",
      "CA Neuro", "CA Northshore", "CA Northshore Neuro",
      "CA PACU", "CA Pain Clinic", "CA Pain Clinic 3",
      "CA Urology", "CA Vascular Thoracic", "CA ECHO",
      "CA APMC", "CA APMC 3", "CA Research" }

UNAVAILABLE_SHIFTS ==
    { "CA Vacation", "CA Vacation Week", "CA Sick",
      "CA Post Call", "CA Home Post Call", "CA Excused",
      "CA Interview", "CA Meeting", "CA half-day/meeting" }

\* the local set ok_post_call of has_post_call_conflict
ok_post_call ==
    { "CA Post Call", "CA Home Post Call",
      "CA Vacation", "CA Vacation Week",
      "CA Sick", "CA Excused" }

---------------------------------------------------------------------------
(* String helpers: str.startswith, str.contains(case=False) *)

startswith(s, prefix) ==
    /\ Len(s) >= Len(prefix)
    /\ SubSeq(s, 1, Len(prefix)) = prefix

LowerChar(c) ==
    CASE c = "A" -> "a" [] c = "B" -> "b" [] c = "C" -> "c" [] c = "D" -> "d"
      [] c = "E" -> "e" [] c = "F" -> "f" [] c = "G" -> "g" [] c = "H" -> "h"
      [] c = "I" -> "i" [] c = "J" -> "j" [] c = "K" -> "k" [] c = "L" -> "l"
      [] c = "M" -> "m" [] c = "N" -> "n" [] c = "O" -> "o" [] c = "P" -> "p"
      [] c = "Q" -> "q" [] c = "R" -> "r" [] c = "S" -> "s" [] c = "T" -> "t"
      [] c = "U" -> "u" [] c = "V" -> "v" [] c = "W" -> "w" [] c = "X" -> "x"
      [] c = "Y" -> "y" [] c = "Z" -> "z" [] OTHER -> c

\* s[i .. i+Len(pat)-1] equals pat, letters compared without case
MatchesAt(s, pat, i) ==
    \A k \in 1..Len(pat) :
        LowerChar(SubSeq(s, i + k - 1, i + k - 1)) = LowerChar(SubSeq(pat, k, k))

contains_nocase(s, pat) ==
    \E i \in 1..(Len(s) - Len(pat) + 1) : MatchesAt(s, pat, i)

---------------------------------------------------------------------------
(* Conflict checker *)

\* schedule[(schedule['name'] == name) & (schedule['date'] == date)]['shift'] as a set
ShiftsOn(sched, name, date) ==
    { r.shift : r \in { q \in sched : q.name = name /\ q.date = date } }

\* mutant: the day after is fine as soon as one of its shifts is acceptable
has_post_call_conflict_AnyOk(sched, name, night_call_date) ==
    LET their_shifts == ShiftsOn(sched, name, night_call_date + 1)
    IN  their_shifts # {} /\ their_shifts \cap ok_post_call = {}

has_post_call_conflict(sched, name, night_call_date) ==
    LET post_call_date == night_call_date + 1
        post_call_shifts == { r \in sched : r.name = name /\ r.date = post_call_date }
        their_shifts == { r.shift : r \in post_call_shifts }
    IN  IF post_call_shifts = {} THEN FALSE
        ELSE IF their_shifts \subseteq ok_post_call THEN FALSE
        ELSE TRUE

---------------------------------------------------------------------------
(* Single-shift search *)

\* timedelta(days=14): the default look-around window of find_swap_candidates
WindowDays == 14

\* ca_schedule = schedule[schedule['shift'].str.startswith('CA ')]
CaSchedule(sched) == { r \in sched : startswith(r.shift, "CA ") }

\* mutant: the default window is one day wider on each side
potential_swaps_WiderWindow(resident_shifts, my_date, my_shift, target_date_range, target_shift_type) ==
    LET start == IF target_date_range # <<>> THEN target_date_range[1]
                 ELSE my_date - WindowDays - 1
        end   == IF target_date_range # <<>> THEN target_date_range[2]
                 ELSE my_date + WindowDays + 1
        inWindow == { r \in resident_shifts : r.date >= start /\ r.date <= end }
    IN  IF target_shift_type # ""
        THEN { r \in inWindow : contains_nocase(r.shift, target_shift_type) }
        ELSE IF my_shift \in CALL_SHIFTS
        THEN { r \in inWindow : r.shift \in CALL_SHIFTS }
        ELSE inWindow

\* mutant: a call target is not matched to call shifts
potential_swaps_NoCallFilter(resident_shifts, my_date, my_shift, target_date_range, target_shift_type) ==
    LET start == IF target_date_range # <<>> THEN target_date_range[1]
                 ELSE my_date - WindowDays
        end   == IF target_date_range # <<>> THEN target_date_range[2]
                 ELSE my_date + WindowDays
        inWindow == { r \in resident_shifts : r.date >= start /\ r.date <= end }
    IN  IF target_shift_type # ""
        THEN { r \in inWindow : contains_nocase(r.shift, target_shift_type) }
        ELSE inWindow

\* the rows of a resident that may be offered: the window, then the type filter.
\* target_date_range is <<>> (None) or <<start, end>>; target_shift_type is ""
\* (None) or the text to look for.
potential_swaps(resident_shifts, my_date, my_shift, target_date_range, target_shift_type) ==
    LET start == IF target_date_range # <<>> THEN target_date_range[1]
                 ELSE my_date - WindowDays
        end   == IF target_date_range # <<>> THEN target_date_range[2]
                 ELSE my_date + WindowDays
        inWindow == { r \in resident_shifts : r.date >= start /\ r.date <= end }
    IN  IF target_shift_type # ""
        THEN { r \in inWindow : contains_nocase(r.shift, target_shift_type) }
        ELSE IF my_shift \in CALL_SHIFTS
        THEN { r \in inWindow : r.shift \in CALL_SHIFTS }
        ELSE inWindow

\* mutant: a resident with any shift on my_date is skipped
SkippedOnMyDate_AnyShift(ca_schedule, resident, my_date) ==
    ShiftsOn(ca_schedule, resident, my_date) # {}

\* the resident is skipped: on call or unavailable on my_date
SkippedOnMyDate(ca_schedule, resident, my_date) ==
    ShiftsOn(ca_schedule, resident, my_date) \cap (CALL_SHIFTS \cup UNAVAILABLE_SHIFTS) # {}

\* mutant: only a call shift makes the requester unavailable
AvailableOn_CallOnly(ca_schedule, my_name, date) ==
    ShiftsOn(ca_schedule, my_name, date) \cap CALL_SHIFTS = {}

\* `available`: the requester holds no call or unavailable shift on the offered date
AvailableOn(ca_schedule, my_name, date) ==
    ShiftsOn(ca_schedule, my_name, date) \cap (CALL_SHIFTS \cup UNAVAILABLE_SHIFTS) = {}

\* mutant: only the requester's side of the post-call check is made
SwapSkipPostCall_OneWay(ca_schedule, my_name, my_date, my_shift, resident, swap) ==
    /\ swap.shift \in NIGHT_CALL_SHIFTS
    /\ has_post_call_conflict(ca_schedule, my_name, swap.date)

\* skip_due_to_post_call of find_swap_candidates
SwapSkipPostCall(ca_schedule, my_name, my_date, my_shift, resident, swap) ==
    \/ /\ swap.shift \in NIGHT_CALL_SHIFTS
       /\ has_post_call_conflict(ca_schedule, my_name, swap.date)
    \/ /\ my_shift \in NIGHT_CALL_SHIFTS
       /\ has_post_call_conflict(ca_schedule, resident, my_date)

\* the rows appended for one resident
SwapRowsOf(ca_schedule, my_name, my_date, my_shift, target_date_range, target_shift_type, resident) ==
    IF SkippedOnMyDate(ca_schedule, resident, my_date) THEN {}
    ELSE { [ candidate |-> resident,
             their_date |-> swap.date,
             their_shift |-> swap.shift,
             your_date |-> my_date,
             your_shift |-> my_shift,
             you_available_their_date |-> TRUE ] :
           swap \in { s \in potential_swaps({ r \in ca_schedule : r.name = resident },
                                            my_date, my_shift, target_date_range,
                                            target_shift_type) :
                      /\ AvailableOn(ca_schedule, my_name, s.date)
                      /\ ~SwapSkipPostCall(ca_schedule, my_name, my_date, my_shift,
                                           resident, s) } }

\* the list `candidates` of find_swap_candidates, before it is sorted;
\* ca_schedule is computed once and the loops run over it
SwapCandidates(sched, my_name, my_date, my_shift, target_date_range, target_shift_type) ==
    UNION { SwapRowsOf(ca_schedule, my_name, my_date, my_shift, target_date_range,
                       target_shift_type, resident) :
            ca_schedule \in { CaSchedule(sched) },
            resident \in { r.name : r \in CaSchedule(sched) } \ { my_name } }

\* mutant: the rows are left in the order they were appended
RECURSIVE SortedByDate_Unsorted(_)
SortedByDate_Unsorted(rows) ==
    IF rows = {} THEN { <<>> }
    ELSE UNION { { <<x>> \o rest : rest \in SortedByDate_Unsorted(rows \ {x}) } :
                 x \in rows }

\* result.sort_values('their_date'): every order of the rows that is ascending
\* in their_date (rows of one date keep no fixed order: the residents are
\* iterated in set order)
RECURSIVE SortedByDate(_)
SortedByDate(rows) ==
    IF rows = {} THEN { <<>> }
    ELSE UNION { { <<x>> \o rest : rest \in SortedByDate(rows \ {x}) } :
                 x \in { y \in rows : \A z \in rows : y.their_date <= z.their_date } }

find_swap_candidates(sched, my_name, my_date, my_shift, target_date_range, target_shift_type) ==
    SortedByDate(SwapCandidates(sched, my_name, my_date, my_shift,
                                target_date_range, target_shift_type))

---------------------------------------------------------------------------
(* Calendar: day 0 is Monday 2024-12-02 *)

\* datetime.weekday(): Monday is 0, Saturday is 5
weekday(d) == d % 7

\* lengths of the months from December 2024 on, with their numbers
MonthTable ==
    << <<12, 31>>, <<1, 31>>, <<2, 28>>, <<3, 31>>, <<4, 30>>, <<5, 31>>,
       <<6, 30>>, <<7, 31>>, <<8, 31>>, <<9, 30>>, <<10, 31>>, <<11, 30>> >>

\* n days after 2024-12-01, walked through the months from entry i on
RECURSIVE MonthDayFrom(_, _)
MonthDayFrom(n, i) ==
    IF n < MonthTable[i][2] THEN <<MonthTable[i][1], n + 1>>
    ELSE MonthDayFrom(n - MonthTable[i][2], i + 1)

\* strftime('%m/%d') of day d (d >= -1) as <<month, day of month>>: both are
\* printed zero-padded on two digits, so that the texts compare as the pairs do
strftime_md(d) == MonthDayFrom(d + 1, 1)

---------------------------------------------------------------------------
(* Weekend classifier and ease scorer *)

\* mutant: a day-work shift takes precedence over a call shift
classify_weekend_type_DayFirst(sat_shifts, sun_shifts) ==
    LET all_shifts == sat_shifts \cup sun_shifts
    IN  IF all_shifts \cap DAY_SHIFTS # {} THEN "day"
        ELSE IF all_shifts \cap CALL_SHIFTS # {} THEN "night"
        ELSE "off"

classify_weekend_type(sat_shifts, sun_shifts) ==
    LET all_shifts == sat_shifts \cup sun_shifts
    IN  IF all_shifts \cap CALL_SHIFTS # {} THEN "night"
        ELSE IF all_shifts \cap DAY_SHIFTS # {} THEN "day"
        ELSE "off"

\* mutant: equal types are scored before the vacation test
calculate_swap_ease_SameTypeFirst(my_type, their_type, prefers_nights, candidate, their_shifts) ==
    LET candidate_prefers_nights == candidate # "" /\ candidate \in prefers_nights
    IN  IF my_type = their_type THEN "Easy"
        ELSE IF their_shifts \cap VACATION_SHIFTS # {} THEN "Very hard"
        ELSE IF my_type = "night" /\ their_type = "day"
             THEN (IF candidate_prefers_nights THEN "Easy" ELSE "Hard sell")
        ELSE IF my_type = "day" /\ their_type = "night"
             THEN (IF candidate_prefers_nights THEN "Hard sell" ELSE "Easy")
        ELSE IF my_type = "night" /\ their_type = "off"
             THEN (IF candidate_prefers_nights THEN "Moderate" ELSE "Hard sell")
        ELSE IF my_type = "off" /\ their_type = "night"
             THEN (IF candidate_prefers_nights THEN "Hard sell" ELSE "Easy")
        ELSE IF my_type = "day" /\ their_type = "off" THEN "Moderate"
        ELSE IF my_type = "off" /\ their_type = "day" THEN "Easy"
        ELSE "Moderate"

\* mutant: the preference profile is not consulted
calculate_swap_ease_NoPreference(my_type, their_type, prefers_nights, candidate, their_shifts) ==
    LET candidate_prefers_nights == FALSE
    IN  IF their_shifts \cap VACATION_SHIFTS # {} THEN "Very hard"
        ELSE IF my_type = their_type THEN "Easy"
        ELSE IF my_type = "night" /\ their_type = "day"
             THEN (IF candidate_prefers_nights THEN "Easy" ELSE "Hard sell")
        ELSE IF my_type = "day" /\ their_type = "night"
             THEN (IF candidate_prefers_nights THEN "Hard sell" ELSE "Easy")
        ELSE IF my_type = "night" /\ their_type = "off"
             THEN (IF candidate_prefers_nights THEN "Moderate" ELSE "Hard sell")
        ELSE IF my_type = "off" /\ their_type = "night"
             THEN (IF candidate_prefers_nights THEN "Hard sell" ELSE "Easy")
        ELSE IF my_type = "day" /\ their_type = "off" THEN "Moderate"
        ELSE IF my_type = "off" /\ their_type = "day" THEN "Easy"
        ELSE "Moderate"

\* a prefers_nights or their_shifts of None is the empty set, a candidate of None
\* the empty name
calculate_swap_ease(my_type, their_type, prefers_nights, candidate, their_shifts) ==
    LET candidate_prefers_nights == candidate # "" /\ candidate \in prefers_nights
    IN  IF their_shifts \cap VACATION_SHIFTS # {} THEN "Very hard"
        ELSE IF my_type = their_type THEN "Easy"
        ELSE IF my_type = "night" /\ their_type = "day"
             THEN (IF candidate_prefers_nights THEN "Easy" ELSE "Hard sell")
        ELSE IF my_type = "day" /\ their_type = "night"
             THEN (IF candidate_prefers_nights THEN "Hard sell" ELSE "Easy")
        ELSE IF my_type = "night" /\ their_type = "off"
             THEN (IF candidate_prefers_nights THEN "Moderate" ELSE "Hard sell")
        ELSE IF my_type = "off" /\ their_type = "night"
             THEN (IF candidate_prefers_nights THEN "Hard sell" ELSE "Easy")
        ELSE IF my_type = "day" /\ their_type = "off" THEN "Moderate"
        ELSE IF my_type = "off" /\ their_type = "day" THEN "Easy"
        ELSE "Moderate"

\* ease_order of find_weekend_swap
ease_order(e) ==
    CASE e = "Easy" -> 0 [] e = "Moderate" -> 1
      [] e = "Hard sell" -> 2 [] e = "Very hard" -> 3

---------------------------------------------------------------------------
(* Weekend search *)

\* mutant: the target weekend is not passed over
CandidateSaturdays_WithTarget(weekend_dates, look_back_weeks, look_forward_weeks) ==
    LET lo == IF weekend_dates[1] <= weekend_dates[2] THEN weekend_dates[1]
              ELSE weekend_dates[2]
        hi == IF weekend_dates[1] >= weekend_dates[2] THEN weekend_dates[1]
              ELSE weekend_dates[2]
        start_check == lo - 7 * look_back_weeks
        end_check == hi + 7 * look_forward_weeks
        currents == { start_check + 7 * k : k \in 0..((end_check - start_check) \div 7) }
        SaturdayOf(current) == current + ((5 - weekday(current)) % 7)
    IN  { saturday \in { SaturdayOf(current) : current \in currents } :
            ~(saturday < start_check \/ saturday + 1 > end_check) }

\* the Saturdays the while loop of find_weekend_swap examines
CandidateSaturdays(weekend_dates, look_back_weeks, look_forward_weeks) ==
    LET lo == IF weekend_dates[1] <= weekend_dates[2] THEN weekend_dates[1]
              ELSE weekend_dates[2]
        hi == IF weekend_dates[1] >= weekend_dates[2] THEN weekend_dates[1]
              ELSE weekend_dates[2]
        start_check == lo - 7 * look_back_weeks
        end_check == hi + 7 * look_forward_weeks
        currents == { start_check + 7 * k : k \in 0..((end_check - start_check) \div 7) }
        SaturdayOf(current) == current + ((5 - weekday(current)) % 7)
    IN  { saturday \in { SaturdayOf(current) : current \in currents } :
            /\ saturday # weekend_dates[1] /\ saturday # weekend_dates[2]
            /\ ~(saturday < start_check \/ saturday + 1 > end_check) }

\* mutant: only the Saturday night calls are followed to the next day
WeekendSkipPostCall_SatOnly(ca_schedule, receiver, sat_shifts, sun_shifts, sat, sun) ==
    /\ sat_shifts \cap NIGHT_CALL_SHIFTS # {}
    /\ has_post_call_conflict(ca_schedule, receiver, sat)

\* skip_due_to_post_call of find_weekend_swap, for the night calls of one
\* weekend <<sat, sun>> (held as sat_shifts, sun_shifts) moving to `receiver`
WeekendSkipPostCall(ca_schedule, receiver, sat_shifts, sun_shifts, sat, sun) ==
    \/ /\ sat_shifts \cap NIGHT_CALL_SHIFTS # {}
       /\ has_post_call_conflict(ca_schedule, receiver, sat)
    \/ /\ sun_shifts \cap NIGHT_CALL_SHIFTS # {}
       /\ has_post_call_conflict(ca_schedule, receiver, sun)

\* ', '.join(shifts) if shifts else 'OFF': the names in some order of the set
RECURSIVE JoinOrders(_)
JoinOrders(shifts) ==
    IF shifts = {} THEN { <<>> }
    ELSE UNION { { <<x>> \o rest : rest \in JoinOrders(shifts \ {x}) } : x \in shifts }

join_or_off(shifts) == IF shifts = {} THEN { <<"OFF">> } ELSE JoinOrders(shifts)

\* mutant: only the candidate's own weekend is tested for ICU rotations
WeekendIcuSkip_OwnOnly(ca_schedule, my_name, weekend_dates, resident, saturday) ==
    ( ShiftsOn(ca_schedule, resident, saturday)
      \cup ShiftsOn(ca_schedule, resident, saturday + 1) ) \cap ICU_SHIFTS # {}

\* the three `continue`s on ICU_SHIFTS of find_weekend_swap
WeekendIcuSkip(ca_schedule, my_name, weekend_dates, resident, saturday) ==
    LET sunday == saturday + 1
        sat_shifts == ShiftsOn(ca_schedule, resident, saturday)
        sun_shifts == ShiftsOn(ca_schedule, resident, sunday)
        their_sat == ShiftsOn(ca_schedule, resident, weekend_dates[1])
        their_sun == ShiftsOn(ca_schedule, resident, weekend_dates[2])
        my_sat_on_theirs == ShiftsOn(ca_schedule, my_name, saturday)
        my_sun_on_theirs == ShiftsOn(ca_schedule, my_name, sunday)
    IN  \/ (sat_shifts \cup sun_shifts) \cap ICU_SHIFTS # {}
        \/ (their_sat \cup their_sun) \cap ICU_SHIFTS # {}
        \/ (my_sat_on_theirs \cup my_sun_on_theirs) \cap ICU_SHIFTS # {}

\* mutant: the requester's availability on the candidate's weekend is not tested
WeekendBothAvailable_OneWay(ca_schedule, my_name, weekend_dates, resident, saturday) ==
    ( ShiftsOn(ca_schedule, resident, weekend_dates[1])
      \cup ShiftsOn(ca_schedule, resident, weekend_dates[2]) )
    \cap (CALL_SHIFTS \cup UNAVAILABLE_SHIFTS) = {}

\* available_my_weekend and i_am_available_their_weekend
WeekendBothAvailable(ca_schedule, my_name, weekend_dates, resident, saturday) ==
    LET sunday == saturday + 1
        their_sat == ShiftsOn(ca_schedule, resident, weekend_dates[1])
        their_sun == ShiftsOn(ca_schedule, resident, weekend_dates[2])
        my_sat_on_theirs == ShiftsOn(ca_schedule, my_name, saturday)
        my_sun_on_theirs == ShiftsOn(ca_schedule, my_name, sunday)
        unavail == CALL_SHIFTS \cup UNAVAILABLE_SHIFTS
        available_my_weekend == (their_sat \cup their_sun) \cap unavail = {}
        i_am_available_their_weekend ==
            (my_sat_on_theirs \cup my_sun_on_theirs) \cap unavail = {}
    IN  available_my_weekend /\ i_am_available_their_weekend

\* whether the pairing of `resident` on the weekend of `saturday` is kept
WeekendPairingKept(ca_schedule, my_name, weekend_dates, resident, saturday) ==
    LET sunday == saturday + 1
        my_sat_shifts == ShiftsOn(ca_schedule, my_name, weekend_dates[1])
        my_sun_shifts == ShiftsOn(ca_schedule, my_name, weekend_dates[2])
        sat_shifts == ShiftsOn(ca_schedule, resident, saturday)
        sun_shifts == ShiftsOn(ca_schedule, resident, sunday)
    IN  /\ ~WeekendIcuSkip(ca_schedule, my_name, weekend_dates, resident, saturday)
        /\ WeekendBothAvailable(ca_schedule, my_name, weekend_dates, resident, saturday)
        /\ ~WeekendSkipPostCall(ca_schedule, my_name, sat_shifts, sun_shifts,
                                saturday, sunday)
        /\ ~WeekendSkipPostCall(ca_schedule, resident, my_sat_shifts, my_sun_shifts,
                                weekend_dates[1], weekend_dates[2])

\* the rows appended for one kept pairing (one per order of the joined names)
WeekendRows(ca_schedule, my_name, weekend_dates, prefers_nights, resident, saturday) ==
    LET sunday == saturday + 1
        sat_shifts == ShiftsOn(ca_schedule, resident, saturday)
        sun_shifts == ShiftsOn(ca_schedule, resident, sunday)
        my_weekend_type ==
            classify_weekend_type(ShiftsOn(ca_schedule, my_name, weekend_dates[1]),
                                  ShiftsOn(ca_schedule, my_name, weekend_dates[2]))
        their_weekend_type == classify_weekend_type(sat_shifts, sun_shifts)
    IN  { [ candidate |-> resident,
            their_weekend |-> <<strftime_md(saturday), strftime_md(sunday)>>,
            their_sat_shift |-> js,
            their_sun_shift |-> ju,
            swap_type |-> <<my_weekend_type, their_weekend_type>>,
            ease |-> calculate_swap_ease(my_weekend_type, their_weekend_type,
                                         prefers_nights, resident,
                                         sat_shifts \cup sun_shifts),
            available_your_weekend |-> TRUE ] :
          js \in join_or_off(sat_shifts), ju \in join_or_off(sun_shifts) }

\* the lists `candidates` find_weekend_swap may build from the kept pairings
\* `pairs` (<<saturday, resident>>): one row for each
RECURSIVE WeekendRowSets(_, _, _, _, _)
WeekendRowSets(ca_schedule, my_name, weekend_dates, prefers_nights, pairs) ==
    IF pairs = {} THEN { {} }
    ELSE LET p == CHOOSE q \in pairs : TRUE
         IN  { {row} \cup others :
               row \in WeekendRows(ca_schedule, my_name, weekend_dates,
                                   prefers_nights, p[2], p[1]),
               others \in WeekendRowSets(ca_schedule, my_name, weekend_dates,
                                         prefers_nights, pairs \ {p}) }

\* ca_schedule is computed once and the loops run over it
WeekendCandidates(sched, my_name, weekend_dates, look_back_weeks, look_forward_weeks, prefers_nights) ==
    UNION { WeekendRowSets(ca_schedule, my_name, weekend_dates, prefers_nights,
                { p \in CandidateSaturdays(weekend_dates, look_back_weeks,
                                           look_forward_weeks)
                        \X ({ r.name : r \in ca_schedule } \ { my_name }) :
                    WeekendPairingKept(ca_schedule, my_name, weekend_dates, p[2], p[1]) }) :
            ca_schedule \in { CaSchedule(sched) } }

\* the sort key of sort_values(['their_weekend', '_ease_order']): the text
\* "Sat mm/dd - Sun mm/dd" compares as <<month, day>> of the Saturday does
\* (the Sunday is fixed by the Saturday), then the ease order
WeekendKeyLeq(x, y) ==
    LET a == x.their_weekend[1]
        b == y.their_weekend[1]
    IN  \/ a[1] < b[1]
        \/ a[1] = b[1] /\ a[2] < b[2]
        \/ a = b /\ ease_order(x.ease) <= ease_order(y.ease)

RECURSIVE SortedByWeekend(_)
SortedByWeekend(rows) ==
    IF rows = {} THEN { <<>> }
    ELSE UNION { { <<x>> \o rest : rest \in SortedByWeekend(rows \ {x}) } :
                 x \in { y \in rows : \A z \in rows : WeekendKeyLeq(y, z) } }

find_weekend_swap(sched, my_name, weekend_dates, look_back_weeks, look_forward_weeks, prefers_nights) ==
    UNION { SortedByWeekend(rows) :
            rows \in WeekendCandidates(sched, my_name, weekend_dates, look_back_weeks,
                                       look_forward_weeks, prefers_nights) }

---------------------------------------------------------------------------
(* Trip coverage *)

\* 'Night' in shift: the substring test of str, case-sensitive
contains(s, pat) ==
    \E i \in 1..(Len(s) - Len(pat) + 1) : SubSeq(s, i, i + Len(pat) - 1) = pat

\* mutant: the day before the trip is classified as the days of the trip are
blocks_travel_SameAsTrip(shift, date, start) == shift \in CALL_SHIFTS

\* blocks_travel of one of the requester's shifts
blocks_travel(shift, date, start) ==
    IF date < start THEN contains(shift, "Night") ELSE shift \in CALL_SHIFTS

\* the 'reason' text of a blocking_shifts entry
blocking_reason(shift) ==
    IF contains(shift, "Night") THEN "Night call prevents travel"
    ELSE IF shift \in CALL_SHIFTS THEN "Call shift"
    ELSE "Day shift during trip"

\* my_shifts: the requester's rows from check_start to trip_end
my_trip_shifts(ca_schedule, my_name, start, end, depart_day_before) ==
    LET check_start == IF depart_day_before THEN start - 1 ELSE start
    IN  { r \in ca_schedule :
            r.name = my_name /\ r.date >= check_start /\ r.date <= end }

\* the lists blocking_shifts may be: one entry for each row of my_shifts, in the
\* order of the rows of the table (any order of the set)
RECURSIVE blocking_shifts(_, _)
blocking_shifts(my_shifts, start) ==
    IF my_shifts = {} THEN { <<>> }
    ELSE UNION { { << [ date |-> row.date,
                        shift |-> row.shift,
                        blocks_travel |-> blocks_travel(row.shift, row.date, start),
                        reason |-> blocking_reason(row.shift) ] >> \o rest :
                   rest \in blocking_shifts(my_shifts \ {row}, start) } :
                 row \in my_shifts }

\* mutant: the shifts that do not block travel are searched too
RECURSIVE candidates_by_shift_SearchAll(_, _, _)
candidates_by_shift_SearchAll(ca_schedule, my_name, blocking) ==
    IF blocking = <<>> THEN { <<>> }
    ELSE LET shift_info == Head(blocking)
         IN  { IF candidates = <<>> THEN rest
               ELSE << [ key |-> <<shift_info.date, shift_info.shift>>,
                         candidates |-> candidates ] >> \o rest :
               candidates \in find_swap_candidates(ca_schedule, my_name,
                                                   shift_info.date,
                                                   shift_info.shift, <<>>, ""),
               rest \in candidates_by_shift_SearchAll(ca_schedule, my_name,
                                                      Tail(blocking)) }

\* the dicts candidates_by_shift may be, as the list of their items in insertion
\* order; the key f"{date_str} ({shift})" is held as <<date, shift>>
RECURSIVE candidates_by_shift(_, _, _)
candidates_by_shift(ca_schedule, my_name, blocking) ==
    IF blocking = <<>> THEN { <<>> }
    ELSE LET shift_info == Head(blocking)
         IN  IF ~shift_info.blocks_travel
             THEN candidates_by_shift(ca_schedule, my_name, Tail(blocking))
             ELSE { IF candidates = <<>> THEN rest
                    ELSE << [ key |-> <<shift_info.date, shift_info.shift>>,
                              candidates |-> candidates ] >> \o rest :
                    candidates \in find_swap_candidates(ca_schedule, my_name,
                                                        shift_info.date,
                                                        shift_info.shift, <<>>, ""),
                    rest \in candidates_by_shift(ca_schedule, my_name, Tail(blocking)) }

\* df['candidate'].unique(): the names of the rows in order of first appearance
RECURSIVE unique_candidates(_)
unique_candidates(rows) ==
    IF rows = <<>> THEN <<>>
    ELSE LET before == unique_candidates(SubSeq(rows, 1, Len(rows) - 1))
             name == rows[Len(rows)].candidate
         IN  IF \E i \in 1..Len(before) : before[i] = name THEN before
             ELSE Append(before, name)

\* the inner loop over the candidates of one shift_key: candidate_coverage is the
\* list of the items of the dict in insertion order
RECURSIVE coverage_add_key(_, _, _)
coverage_add_key(coverage, shift_key, names) ==
    IF names = <<>> THEN coverage
    ELSE LET candidate == Head(names)
             added ==
                 IF \E i \in 1..Len(coverage) : coverage[i].candidate = candidate
                 THEN [ i \in 1..Len(coverage) |->
                          IF coverage[i].candidate = candidate
                          THEN [ coverage[i] EXCEPT !.shifts = Append(@, shift_key) ]
                          ELSE coverage[i] ]
                 ELSE Append(coverage, [ candidate |-> candidate,
                                         shifts |-> <<shift_key>> ])
         IN  coverage_add_key(added, shift_key, Tail(names))

RECURSIVE candidate_coverage(_)
candidate_coverage(by_shift) ==
    IF by_shift = <<>> THEN <<>>
    ELSE LET item == by_shift[Len(by_shift)]
         IN  coverage_add_key(candidate_coverage(SubSeq(by_shift, 1, Len(by_shift) - 1)),
                              item.key, unique_candidates(item.candidates))

\* sorted(candidate_coverage.items(), key=lambda x: -len(x[1])): a stable sort,
\* the items of one length keep their insertion order
RECURSIVE sorted_by_coverage(_)
sorted_by_coverage(coverage) ==
    IF coverage = <<>> THEN <<>>
    ELSE LET longest == CHOOSE n \in { Len(coverage[i].shifts) : i \in 1..Len(coverage) } :
                            \A i \in 1..Len(coverage) : Len(coverage[i].shifts) <= n
         IN  SelectSeq(coverage, LAMBDA x : Len(x.shifts) = longest)
             \o sorted_by_coverage(SelectSeq(coverage, LAMBDA x : Len(x.shifts) # longest))

\* mutant: every candidate of some shift is recommended
package_recommendations_Any(by_shift) ==
    IF Len(by_shift) > 1
    THEN LET sorted == sorted_by_coverage(candidate_coverage(by_shift))
         IN  [ i \in 1..Len(sorted) |->
                 [ candidate |-> sorted[i].candidate,
                   can_cover |-> sorted[i].shifts,
                   coverage_count |-> Len(sorted[i].shifts) ] ]
    ELSE <<>>

package_recommendations(by_shift) ==
    IF Len(by_shift) > 1
    THEN LET sorted == SelectSeq(sorted_by_coverage(candidate_coverage(by_shift)),
                                 LAMBDA x : Len(x.shifts) > 1)
         IN  [ i \in 1..Len(sorted) |->
                 [ candidate |-> sorted[i].candidate,
                   can_cover |-> sorted[i].shifts,
                   coverage_count |-> Len(sorted[i].shifts) ] ]
    ELSE <<>>

NoTripCoverage ==
    [ blocking_shifts |-> <<>>, candidates_by_shift |-> <<>>,
      package_recommendations |-> <<>> ]

\* the dicts find_trip_coverage may return
find_trip_coverage(sched, my_name, trip_start, trip_end, depart_day_before) ==
    UNION { IF my_shifts = {} THEN { NoTripCoverage }
            ELSE UNION { { [ blocking_shifts |-> blocking,
                             candidates_by_shift |-> by_shift,
                             package_recommendations |-> package_recommendations(by_shift) ] :
                           by_shift \in candidates_by_shift(ca_schedule, my_name, blocking) } :
                         blocking \in blocking_shifts(my_shifts, trip_start) } :
            ca_schedule \in { CaSchedule(sched) },
            my_shifts \in { my_trip_shifts(CaSchedule(sched), my_name, trip_start,
                                           trip_end, depart_day_before) } }

---------------------------------------------------------------------------
(* Bounded inputs *)

\* the largest number of rows of a loaded schedule
MaxRows == 3

\* every set of at most n elements of S
RECURSIVE SubsetsUpTo(_, _)
SubsetsUpTo(S, n) ==
    IF n = 0 THEN { {} }
    ELSE LET smaller == SubsetsUpTo(S, n - 1)
         IN  smaller \cup { T \cup {x} : T \in smaller, x \in S }

Rows(names, dates, shifts) == [ name : names, date : dates, shift : shifts ]

NoCall == [ op |-> "none" ]

NoArgs == [ op |-> "none" ]

\* what load_friends returns when friends.json does not exist; notes is the dict
\* of friend -> note, a function on its keys
NoFriends == [ friends |-> <<>>, notes |-> <<>>, prefers_nights |-> <<>> ]

\* what load_ledger returns when swap_ledger.json does not exist
NoLedger == [ debts |-> <<>> ]

---------------------------------------------------------------------------
(* Single-shift search on a loaded schedule *)

SwapResidents == { "A", "B" }
SwapDates == 0..2
SwapShifts ==
    { "CA CV Call", "CA CLI Day Call", "CA ICU Call", "CA OB",
      "CA Vacation", "CA Interview", "Faculty OR" }

\* arguments of the queries
SwapRequesters == { "A" }
SwapTargetDates == { 0, 1 }
SwapTargetShifts == { "CA CV Call", "CA CLI Day Call", "CA ICU Call", "CA OB" }
SwapExplicitShifts == { "CA CV Call" }
SwapExplicitArgs ==
    { [ target_date_range |-> <<1, 2>>, target_shift_type |-> "" ],
      [ target_date_range |-> <<>>, target_shift_type |-> "ob" ] }

InitSwap ==
    /\ schedule \in SubsetsUpTo(Rows(SwapResidents, SwapDates, SwapShifts), MaxRows)
    /\ pc = "ready"
    /\ call = NoCall
    /\ swapResult = <<>>
    /\ weekendResult = <<>>
    /\ conflictResult = FALSE
    /\ tripResult = NoTripCoverage
    /\ pureArgs = NoArgs
    /\ easeResult = ""
    /\ typeResult = ""
    /\ shiftTypeResult = ""
    /\ friendsFile = NoFriends
    /\ ledgerFile = NoLedger
    /\ printed = ""
    /\ filterResult = <<>>
    /\ summaryResult = <<>>

\* find_swap_candidates(ca_schedule, name, date, shift), as the swap command and
\* the trip planner call it
SwapSearch ==
    /\ pc = "ready"
    /\ \E my_name \in SwapRequesters, my_date \in SwapTargetDates,
          my_shift \in SwapTargetShifts :
          /\ swapResult' \in find_swap_candidates(schedule, my_name, my_date, my_shift,
                                                  <<>>, "")
          /\ call' = [ op |-> "swap", my_name |-> my_name, my_date |-> my_date,
                       my_shift |-> my_shift, target_date_range |-> <<>>,
                       target_shift_type |-> "" ]
    /\ pc' = "done"
    /\ UNCHANGED <<schedule, weekendResult, conflictResult, tripResult,
                   pureArgs, easeResult, typeResult,
                   shiftTypeResult, friendsFile, ledgerFile, printed, filterResult,
                   summaryResult>>

\* find_swap_candidates with an explicit date range or shift type
SwapSearchExplicit ==
    /\ pc = "ready"
    /\ \E my_name \in SwapRequesters, my_date \in SwapTargetDates,
          my_shift \in SwapExplicitShifts, args \in SwapExplicitArgs :
          /\ swapResult' \in find_swap_candidates(schedule, my_name, my_date, my_shift,
                                                  args.target_date_range,
                                                  args.target_shift_type)
          /\ call' = [ op |-> "swap", my_name |-> my_name, my_date |-> my_date,
                       my_shift |-> my_shift,
                       target_date_range |-> args.target_date_range,
                       target_shift_type |-> args.target_shift_type ]
    /\ pc' = "done"
    /\ UNCHANGED <<schedule, weekendResult, conflictResult, tripResult,
                   pureArgs, easeResult, typeResult,
                   shiftTypeResult, friendsFile, ledgerFile, printed, filterResult,
                   summaryResult>>

\* has_post_call_conflict(schedule, name, night_call_date) on its own
CheckPostCall ==
    /\ pc = "ready"
    /\ \E name \in SwapResidents, night_call_date \in SwapDates :
          /\ conflictResult' = has_post_call_conflict(schedule, name, night_call_date)
          /\ call' = [ op |-> "post_call", name |-> name,
                       night_call_date |-> night_call_date ]
    /\ pc' = "done"
    /\ UNCHANGED <<schedule, swapResult, weekendResult, tripResult,
                   pureArgs, easeResult, typeResult,
                   shiftTypeResult, friendsFile, ledgerFile, printed, filterResult,
                   summaryResult>>

NextSwap == SwapSearch \/ SwapSearchExplicit \/ CheckPostCall

SpecSwap == InitSwap /\ [][NextSwap]_vars

---------------------------------------------------------------------------
(* Weekend search on a loaded schedule.  Day 26 is Saturday 2024-12-28; the  *)
(* weekends one week away are 12/21-12/22 and 01/04-01/05.                   *)

WeekendResidents == { "A", "B" }
WeekendDates == { 26, 27, 28, 33, 34, 35 }
WeekendShifts == { "CA CV Call", "CA SICU", "CA OB", "CA Vacation" }

\* arguments of the queries
WeekendRequesters == { "A" }
WeekendSaturdays == { 26 }
WeekendWeeks == { 1 }
WeekendPrefersNights == { {}, { "B" } }

InitWeekend ==
    /\ schedule \in SubsetsUpTo(Rows(WeekendResidents, WeekendDates, WeekendShifts),
                                MaxRows)
    /\ pc = "ready"
    /\ call = NoCall
    /\ swapResult = <<>>
    /\ weekendResult = <<>>
    /\ conflictResult = FALSE
    /\ tripResult = NoTripCoverage
    /\ pureArgs = NoArgs
    /\ easeResult = ""
    /\ typeResult = ""
    /\ shiftTypeResult = ""
    /\ friendsFile = NoFriends
    /\ ledgerFile = NoLedger
    /\ printed = ""
    /\ filterResult = <<>>
    /\ summaryResult = <<>>

\* find_weekend_swap(ca_schedule, name, [saturday, sunday], weeks, weeks), as the
\* weekend command and the dashboard call it; prefers_nights is what
\* load_friends() reads
WeekendSearch ==
    /\ pc = "ready"
    /\ \E my_name \in WeekendRequesters, saturday \in WeekendSaturdays,
          weeks \in WeekendWeeks, prefers_nights \in WeekendPrefersNights :
          /\ weekendResult' \in find_weekend_swap(schedule, my_name,
                                                  <<saturday, saturday + 1>>,
                                                  weeks, weeks, prefers_nights)
          /\ call' = [ op |-> "weekend", my_name |-> my_name,
                       weekend_dates |-> <<saturday, saturday + 1>>,
                       look_back_weeks |-> weeks, look_forward_weeks |-> weeks,
                       prefers_nights |-> prefers_nights ]
    /\ pc' = "done"
    /\ UNCHANGED <<schedule, swapResult, conflictResult, tripResult,
                   pureArgs, easeResult, typeResult,
                   shiftTypeResult, friendsFile, ledgerFile, printed, filterResult,
                   summaryResult>>

NextWeekend == WeekendSearch

SpecWeekend == InitWeekend /\ [][NextWeekend]_vars

---------------------------------------------------------------------------
(* Properties of the single-shift search and of the conflict checker.      *)
(* "Holds" is read on the schedule table of the resident population: the   *)
(* rows whose shift name starts with "CA ".                                *)

SwapDone == pc = "done" /\ call.op = "swap"

SwapDefaultDone ==
    SwapDone /\ call.target_date_range = <<>> /\ call.target_shift_type = ""

ResidentTable == { r \in schedule : startswith(r.shift, "CA ") }

Held(name, date) ==
    { r.shift : r \in { q \in ResidentTable : q.name = name /\ q.date = date } }

HoldsCallOrUnavailable(name, date) ==
    \E s \in Held(name, date) : s \in CALL_SHIFTS \/ s \in UNAVAILABLE_SHIFTS

AcceptablePostCall ==
    { "CA Post Call", "CA Home Post Call", "CA Vacation", "CA Vacation Week",
      "CA Sick", "CA Excused" }

\* a shift outside the allow-list on the day after `date`
WorksDayAfter(name, date) ==
    \E s \in Held(name, date + 1) : s \notin AcceptablePostCall

SwapRowIndexes == 1..Len(swapResult)

\* the shape of the end-to-end scenario: the requester holds the call shift being
\* shed on D and nothing on D+1, B holds a day-work shift on D and no call or
\* unavailable shift on D
C1_Shape(requester, b, D, shift) ==
    /\ shift \in CALL_SHIFTS
    /\ shift \in Held(requester, D)
    /\ Held(requester, D + 1) = {}
    /\ b # requester
    /\ Held(b, D) \cap DAY_SHIFTS # {}
    /\ ~HoldsCallOrUnavailable(b, D)

\* B holds nothing but day-work shifts, as the scenario has it
C1_OnlyDayWork(b) ==
    \A r \in ResidentTable : r.name = b => r.shift \in DAY_SHIFTS

\* B offers the call shift s on Dp, which the requester can take: Dp is within
\* the window, the requester is free on Dp, and neither night call that changes
\* hands is followed by work
C1_Offers(requester, b, D, shift, Dp, s) ==
    /\ s \in Held(b, Dp)
    /\ s \in CALL_SHIFTS
    /\ Dp >= D - 14 /\ Dp <= D + 14
    /\ ~HoldsCallOrUnavailable(requester, Dp)
    /\ s \in NIGHT_CALL_SHIFTS => ~WorksDayAfter(requester, Dp)
    /\ shift \in NIGHT_CALL_SHIFTS => ~WorksDayAfter(b, D)

C1_ReturnsB(b) ==
    \E i \in SwapRowIndexes :
        swapResult[i].candidate = b /\ swapResult[i].you_available_their_date = TRUE

\* C1 as stated: in the end-to-end scenario (A holds a call shift on D and nothing
\* on D+1, B holds only a day-work shift on D) the default single-shift search
\* for A's call returns a row for B with the availability flag true.
C1_Original ==
    SwapDefaultDone =>
        \A b \in SwapResidents :
            ( /\ C1_Shape(call.my_name, b, call.my_date, call.my_shift)
              /\ C1_OnlyDayWork(b) )
            => C1_ReturnsB(b)

\* C1 amended: in the end-to-end scenario the default search for A's call returns
\* no row for B, who offers no call shift; B is returned, with the availability
\* flag true, when B also holds a call shift on a date within 14 days of D on
\* which A holds no call or unavailable shift, and no night call that changes
\* hands is followed by a shift outside the post-call allow-list.
C1_EndToEnd ==
    SwapDefaultDone =>
        \A b \in SwapResidents :
            C1_Shape(call.my_name, b, call.my_date, call.my_shift) =>
                /\ C1_OnlyDayWork(b) =>
                      \A i \in SwapRowIndexes : swapResult[i].candidate # b
                /\ \A Dp \in SwapDates, s \in CALL_SHIFTS :
                      C1_Offers(call.my_name, b, call.my_date, call.my_shift, Dp, s)
                      => \E i \in SwapRowIndexes :
                            /\ swapResult[i].candidate = b
                            /\ swapResult[i].their_date = Dp
                            /\ swapResult[i].their_shift = s
                            /\ swapResult[i].you_available_their_date = TRUE

\* the scenario with B also offering a call shift, and B returned
C1_Witness ==
    /\ SwapDefaultDone
    /\ \E b \in SwapResidents :
          /\ C1_Shape(call.my_name, b, call.my_date, call.my_shift)
          /\ \E Dp \in SwapDates, s \in CALL_SHIFTS :
                C1_Offers(call.my_name, b, call.my_date, call.my_shift, Dp, s)
          /\ C1_ReturnsB(b)

\* C2: for every returned row (candidate c, their_date d), c holds no call or
\* unavailable shift on the target date and the requester holds none on d, each
\* test made on all the shifts held that date.
C2_MutualAvailability ==
    SwapDone =>
        \A i \in SwapRowIndexes :
            /\ ~HoldsCallOrUnavailable(swapResult[i].candidate, call.my_date)
            /\ ~HoldsCallOrUnavailable(call.my_name, swapResult[i].their_date)

\* a row is returned while the candidate holds a shift on the target date and the
\* requester holds a shift on the offered date
C2_Witness ==
    /\ SwapDone
    /\ \E i \in SwapRowIndexes :
          /\ Held(swapResult[i].candidate, call.my_date) # {}
          /\ Held(call.my_name, swapResult[i].their_date) # {}

\* C3: no returned row offers a night call the requester would follow with work
\* on the next day, and when the target shift is a night call no returned
\* candidate works the day after the target date.
C3_NoPostCallConflict ==
    SwapDone =>
        \A i \in SwapRowIndexes :
            /\ swapResult[i].their_shift \in NIGHT_CALL_SHIFTS
                  => ~WorksDayAfter(call.my_name, swapResult[i].their_date)
            /\ call.my_shift \in NIGHT_CALL_SHIFTS
                  => ~WorksDayAfter(swapResult[i].candidate, call.my_date)

\* a night call is swapped for a night call, both parties holding an acceptable
\* shift on the day after the call they receive
C3_Witness ==
    /\ SwapDone
    /\ call.my_shift \in NIGHT_CALL_SHIFTS
    /\ \E i \in SwapRowIndexes :
          /\ swapResult[i].their_shift \in NIGHT_CALL_SHIFTS
          /\ Held(call.my_name, swapResult[i].their_date + 1) # {}
          /\ Held(swapResult[i].candidate, call.my_date + 1) # {}

\* C4: single-shift search never returns a row whose offered shift is a
\* non-tradeable rotation (ICU_SHIFTS), and returns no rows when the target shift
\* is one.
C4_NonTradeableExcluded ==
    SwapDone =>
        /\ \A i \in SwapRowIndexes : swapResult[i].their_shift \notin ICU_SHIFTS
        /\ call.my_shift \in ICU_SHIFTS => swapResult = <<>>

\* C9: has_post_call_conflict(schedule, person, D) is true iff the person holds on
\* D+1 at least one shift name outside the allow-list.
C9_PostCallConflict ==
    (pc = "done" /\ call.op = "post_call") =>
        ( conflictResult <=>
            \E r \in schedule :
                /\ r.name = call.name
                /\ r.date = call.night_call_date + 1
                /\ r.shift \notin AcceptablePostCall )

\* the mixed case: an allowed and a non-allowed shift on D+1, reported a conflict
C9_Witness ==
    /\ pc = "done" /\ call.op = "post_call"
    /\ conflictResult = TRUE
    /\ \E r, q \in schedule :
          /\ r.name = call.name /\ q.name = call.name
          /\ r.date = call.night_call_date + 1 /\ q.date = r.date
          /\ r.shift \in AcceptablePostCall
          /\ q.shift \notin AcceptablePostCall

\* C10: when the target shift is a call shift and no target_shift_type is given,
\* every returned row offers a call shift.
C10_CallForCall ==
    (SwapDone /\ call.my_shift \in CALL_SHIFTS /\ call.target_shift_type = "") =>
        \A i \in SwapRowIndexes : swapResult[i].their_shift \in CALL_SHIFTS

\* a call shift is returned from a candidate who also holds a shift that is not a
\* call shift, on a date the requester is free
C10_Witness ==
    /\ SwapDone /\ call.my_shift \in CALL_SHIFTS /\ call.target_shift_type = ""
    /\ \E i \in SwapRowIndexes :
          \E r \in ResidentTable :
              /\ r.name = swapResult[i].candidate
              /\ r.shift \notin CALL_SHIFTS
              /\ r.date # call.my_date
              /\ ~HoldsCallOrUnavailable(call.my_name, r.date)

---------------------------------------------------------------------------
(* Properties of the weekend search *)

WeekendDone == pc = "done" /\ call.op = "weekend"

WeekendRowIndexes == 1..Len(weekendResult)

\* the days a returned weekend may lie on
WeekendHorizon == 0..60

\* the Saturday of the candidate weekend a row names ("Sat mm/dd - Sun mm/dd")
SaturdayOfRow(row) ==
    CHOOSE sat \in WeekendHorizon :
        /\ sat % 7 = 5
        /\ row.their_weekend = <<strftime_md(sat), strftime_md(sat + 1)>>

HoldsNightCall(name, date) == Held(name, date) \cap NIGHT_CALL_SHIFTS # {}

HoldsNonTradeable(name, date) == Held(name, date) \cap ICU_SHIFTS # {}

\* C5: for every returned pairing, no night call of the candidate's weekend is
\* followed by work of the requester on the next day, and no night call of the
\* target weekend is followed by work of the candidate on the next day.
C5_WeekendNoPostCallConflict ==
    WeekendDone =>
        \A i \in WeekendRowIndexes :
            LET c == weekendResult[i].candidate
                sat == SaturdayOfRow(weekendResult[i])
            IN  /\ \A d \in { sat, sat + 1 } :
                      HoldsNightCall(c, d) => ~WorksDayAfter(call.my_name, d)
                /\ \A d \in { call.weekend_dates[1], call.weekend_dates[2] } :
                      HoldsNightCall(call.my_name, d) => ~WorksDayAfter(c, d)

\* a pairing is returned in which night calls move both ways and a receiver
\* holds a shift on the day after the call received
C5_Witness ==
    /\ WeekendDone
    /\ \E i \in WeekendRowIndexes :
          LET c == weekendResult[i].candidate
              sat == SaturdayOfRow(weekendResult[i])
          IN  /\ \E d \in { sat, sat + 1 } : HoldsNightCall(c, d)
              /\ \E d \in { call.weekend_dates[1], call.weekend_dates[2] } :
                    HoldsNightCall(call.my_name, d)
              /\ \E d \in { sat, sat + 1 } :
                    HoldsNightCall(c, d) /\ Held(call.my_name, d + 1) # {}

\* C6: no returned candidate holds a non-tradeable rotation shift on a day of the
\* weekend offered or on a day of the target weekend.
C6_CandidateNotOnRotation ==
    WeekendDone =>
        \A i \in WeekendRowIndexes :
            LET c == weekendResult[i].candidate
                sat == SaturdayOfRow(weekendResult[i])
            IN  \A d \in { sat, sat + 1, call.weekend_dates[1], call.weekend_dates[2] } :
                    ~HoldsNonTradeable(c, d)

\* a candidate holding shifts on both weekends is returned
C6_Witness ==
    /\ WeekendDone
    /\ \E i \in WeekendRowIndexes :
          LET c == weekendResult[i].candidate
              sat == SaturdayOfRow(weekendResult[i])
          IN  /\ Held(c, sat) \cup Held(c, sat + 1) # {}
              /\ Held(c, call.weekend_dates[1]) \cup Held(c, call.weekend_dates[2]) # {}

\* C7: no pairing is returned when either party holds a non-tradeable rotation on
\* either weekend; a requester holding one on the target weekend gets no pairing.
C7_NeitherPartyOnRotation ==
    WeekendDone =>
        \A i \in WeekendRowIndexes :
            LET c == weekendResult[i].candidate
                sat == SaturdayOfRow(weekendResult[i])
            IN  \A d \in { sat, sat + 1, call.weekend_dates[1], call.weekend_dates[2] } :
                    ~HoldsNonTradeable(c, d) /\ ~HoldsNonTradeable(call.my_name, d)

\* C8: for every returned pairing the candidate holds no call or unavailable
\* shift on the target weekend and the requester holds none on the weekend
\* offered.
C8_WeekendMutualAvailability ==
    WeekendDone =>
        \A i \in WeekendRowIndexes :
            LET c == weekendResult[i].candidate
                sat == SaturdayOfRow(weekendResult[i])
            IN  /\ \A d \in { call.weekend_dates[1], call.weekend_dates[2] } :
                      ~HoldsCallOrUnavailable(c, d)
                /\ \A d \in { sat, sat + 1 } :
                      ~HoldsCallOrUnavailable(call.my_name, d)

\* a pairing is returned while the candidate holds a shift on the target weekend
\* and the requester holds a shift on the weekend offered
C8_Witness ==
    /\ WeekendDone
    /\ \E i \in WeekendRowIndexes :
          LET c == weekendResult[i].candidate
              sat == SaturdayOfRow(weekendResult[i])
          IN  /\ Held(c, call.weekend_dates[1]) \cup Held(c, call.weekend_dates[2]) # {}
              /\ Held(call.my_name, sat) \cup Held(call.my_name, sat + 1) # {}

---------------------------------------------------------------------------
(* Both searches on a schedule that also holds a shift name of no          *)
(* configured set                                                          *)

OtherDates == { 0, 1, 26, 27, 33, 34 }
OtherShifts == { "CA Lecture", "CA OB", "CA CV Call" }

InitOther ==
    /\ schedule \in SubsetsUpTo(Rows(SwapResidents, OtherDates, OtherShifts), MaxRows)
    /\ pc = "ready"
    /\ call = NoCall
    /\ swapResult = <<>>
    /\ weekendResult = <<>>
    /\ conflictResult = FALSE
    /\ tripResult = NoTripCoverage
    /\ pureArgs = NoArgs
    /\ easeResult = ""
    /\ typeResult = ""
    /\ shiftTypeResult = ""
    /\ friendsFile = NoFriends
    /\ ledgerFile = NoLedger
    /\ printed = ""
    /\ filterResult = <<>>
    /\ summaryResult = <<>>

NextOther == SwapSearch \/ WeekendSearch

SpecOther == InitOther /\ [][NextOther]_vars

\* the names of the configured category sets
ConfiguredShifts ==
    NIGHT_CALL_SHIFTS \cup CALL_SHIFTS \cup ICU_SHIFTS \cup VACATION_SHIFTS
    \cup DAY_SHIFTS \cup UNAVAILABLE_SHIFTS

\* the names a weekend row lists for one day ("OFF" stands for none)
ListedNames(joined) == { joined[k] : k \in 1..Len(joined) } \ { "OFF" }

\* C11: no row returned by the single-shift search or by the weekend search lists
\* a shift name outside every configured category set as their_shift,
\* their_sat_shift or their_sun_shift.
C11_OtherNeverOffered ==
    /\ SwapDone =>
          \A i \in SwapRowIndexes : swapResult[i].their_shift \in ConfiguredShifts
    /\ WeekendDone =>
          \A i \in WeekendRowIndexes :
              /\ ListedNames(weekendResult[i].their_sat_shift) \subseteq ConfiguredShifts
              /\ ListedNames(weekendResult[i].their_sun_shift) \subseteq ConfiguredShifts

---------------------------------------------------------------------------
(* Trip coverage on a loaded schedule *)

\* arguments of the queries: the trip is days 1..2, day 0 is the day before
TripRequesters == { "A" }
TripRanges == { <<1, 2>> }

\* find_trip_coverage(schedule, name, start, end, depart_day_before), as the trip
\* command and the dashboard call it
TripSearch ==
    /\ pc = "ready"
    /\ \E my_name \in TripRequesters, range \in TripRanges,
          depart_day_before \in BOOLEAN :
          /\ tripResult' \in find_trip_coverage(schedule, my_name, range[1], range[2],
                                                depart_day_before)
          /\ call' = [ op |-> "trip", my_name |-> my_name, trip_start |-> range[1],
                       trip_end |-> range[2],
                       depart_day_before |-> depart_day_before ]
    /\ pc' = "done"
    /\ UNCHANGED <<schedule, swapResult, weekendResult, conflictResult,
                   pureArgs, easeResult, typeResult,
                   shiftTypeResult, friendsFile, ledgerFile, printed, filterResult,
                   summaryResult>>

NextTrip == TripSearch

\* one shift of the requester, of any configured name, on the day before or on a
\* day of the trip, and at most one shift of another resident
VocabularyDates == 0..2
VocabularyOthers == Rows({ "B" }, { 3 }, { "CA CLI Day Call", "CA OB" })

InitTripVocabulary ==
    /\ \E mine \in Rows(TripRequesters, VocabularyDates, ConfiguredShifts),
          theirs \in { {} } \cup { { r } : r \in VocabularyOthers } :
          schedule = { mine } \cup theirs
    /\ pc = "ready"
    /\ call = NoCall
    /\ swapResult = <<>>
    /\ weekendResult = <<>>
    /\ conflictResult = FALSE
    /\ tripResult = NoTripCoverage
    /\ pureArgs = NoArgs
    /\ easeResult = ""
    /\ typeResult = ""
    /\ shiftTypeResult = ""
    /\ friendsFile = NoFriends
    /\ ledgerFile = NoLedger
    /\ printed = ""
    /\ filterResult = <<>>
    /\ summaryResult = <<>>

SpecTripVocabulary == InitTripVocabulary /\ [][NextTrip]_vars

\* the call shifts of the requester around the trip and the shifts of two other
\* residents, who may offer a call shift or be away
MaxMyShifts == 3
MaxTheirShifts == 2
TripMyDates == 0..2
TripMyShifts == { "CA CV Call", "CA CLI Day Call" }
TripOthers == { "B", "C" }
TripTheirDates == { 0, 1, 3 }
TripTheirShifts == { "CA CLI Day Call", "CA Vacation" }

InitTrip ==
    /\ \E mine \in SubsetsUpTo(Rows(TripRequesters, TripMyDates, TripMyShifts),
                               MaxMyShifts),
          theirs \in SubsetsUpTo(Rows(TripOthers, TripTheirDates, TripTheirShifts),
                                 MaxTheirShifts) :
          schedule = mine \cup theirs
    /\ pc = "ready"
    /\ call = NoCall
    /\ swapResult = <<>>
    /\ weekendResult = <<>>
    /\ conflictResult = FALSE
    /\ tripResult = NoTripCoverage
    /\ pureArgs = NoArgs
    /\ easeResult = ""
    /\ typeResult = ""
    /\ shiftTypeResult = ""
    /\ friendsFile = NoFriends
    /\ ledgerFile = NoLedger
    /\ printed = ""
    /\ filterResult = <<>>
    /\ summaryResult = <<>>

SpecTrip == InitTrip /\ [][NextTrip]_vars

---------------------------------------------------------------------------
(* Properties of the trip coverage *)

TripDone == pc = "done" /\ call.op = "trip"

BlockingIndexes == 1..Len(tripResult.blocking_shifts)

\* the first day checked
TripCheckStart ==
    IF call.depart_day_before THEN call.trip_start - 1 ELSE call.trip_start

\* the requester's rows in the checked range
TripMyRows ==
    { r \in ResidentTable :
        r.name = call.my_name /\ r.date >= TripCheckStart /\ r.date <= call.trip_end }

\* the row is listed in blocking_shifts as blocking travel
ListedBlocking(r) ==
    \E i \in BlockingIndexes :
        /\ tripResult.blocking_shifts[i].date = r.date
        /\ tripResult.blocking_shifts[i].shift = r.shift
        /\ tripResult.blocking_shifts[i].blocks_travel = TRUE

\* C12: every shift of the requester in the checked range that is a night call
\* (NIGHT_CALL_SHIFTS) is classified blocks_travel = true, on the days of the
\* trip and on the day before when depart_day_before is set.
C12_NightCallAlwaysBlocks ==
    TripDone =>
        \A r \in TripMyRows : r.shift \in NIGHT_CALL_SHIFTS => ListedBlocking(r)

\* C13: a shift held on the day before trip_start that is not a night call never
\* appears with blocks_travel = true, for every configured shift name.
C13_DayBeforeOnlyNightCall ==
    TripDone =>
        \A i \in BlockingIndexes :
            ( /\ tripResult.blocking_shifts[i].date < call.trip_start
              /\ tripResult.blocking_shifts[i].shift \notin NIGHT_CALL_SHIFTS )
            => tripResult.blocking_shifts[i].blocks_travel = FALSE

\* a call shift that is not a night call is held on the day before and is listed
\* as not blocking
C13_Witness ==
    /\ TripDone
    /\ call.depart_day_before
    /\ \E i \in BlockingIndexes :
          /\ tripResult.blocking_shifts[i].date < call.trip_start
          /\ tripResult.blocking_shifts[i].shift \in CALL_SHIFTS \ NIGHT_CALL_SHIFTS
          /\ tripResult.blocking_shifts[i].blocks_travel = FALSE

\* C14: a day-work shift the requester holds on a day of the trip proper is
\* classified blocks_travel = true.
C14_DayWorkInTripBlocks ==
    TripDone =>
        \A r \in TripMyRows :
            (r.date >= call.trip_start /\ r.shift \in DAY_SHIFTS) => ListedBlocking(r)

PackageIndexes == 1..Len(tripResult.package_recommendations)

ShiftKeyIndexes == 1..Len(tripResult.candidates_by_shift)

\* the shift keys whose candidate list names the candidate
KeysNaming(candidate) ==
    { tripResult.candidates_by_shift[k].key :
        k \in { j \in ShiftKeyIndexes :
                  \E n \in 1..Len(tripResult.candidates_by_shift[j].candidates) :
                      tripResult.candidates_by_shift[j].candidates[n].candidate
                          = candidate } }

\* C15: the package recommendations list exactly the candidates that appear in
\* two or more shift keys of candidates_by_shift, each once, with coverage_count
\* the number of distinct shift keys naming the candidate, in non-increasing
\* coverage_count order.
C15_PackagesCoverTwoOrMore ==
    TripDone =>
        /\ \A c \in TripOthers :
              Cardinality(KeysNaming(c)) >= 2
              <=> \E i \in PackageIndexes :
                     tripResult.package_recommendations[i].candidate = c
        /\ \A i \in PackageIndexes :
              LET p == tripResult.package_recommendations[i]
              IN  /\ p.coverage_count = Cardinality(KeysNaming(p.candidate))
                  /\ p.coverage_count >= 2
                  /\ \A j \in PackageIndexes :
                        /\ i < j => p.coverage_count
                                      >= tripResult.package_recommendations[j].coverage_count
                        /\ i # j => p.candidate
                                      # tripResult.package_recommendations[j].candidate

\* three shifts need coverage; one candidate covers all three and is listed
\* before a candidate covering two
C15_Witness ==
    /\ TripDone
    /\ Len(tripResult.package_recommendations) = 2
    /\ tripResult.package_recommendations[1].coverage_count = 3
    /\ tripResult.package_recommendations[2].coverage_count = 2

\* the alphabetical order of the residents' names
NameRank(name) == CASE name = "A" -> 1 [] name = "B" -> 2 [] name = "C" -> 3

\* the candidates of a package list with their counts, in order
PackageOrder(packages) ==
    [ i \in 1..Len(packages) |->
        <<packages[i].candidate, packages[i].coverage_count>> ]

\* C16: package recommendations of equal coverage_count are ordered by candidate
\* name, so that the list of candidates is the same whatever the iteration order
\* of the residents and the row order of the per-shift candidate lists.
C16_TiesOrderedByName ==
    TripDone =>
        /\ \A i, j \in PackageIndexes :
              ( /\ i < j
                /\ tripResult.package_recommendations[i].coverage_count
                     = tripResult.package_recommendations[j].coverage_count )
              => NameRank(tripResult.package_recommendations[i].candidate)
                   < NameRank(tripResult.package_recommendations[j].candidate)
        /\ \A other \in find_trip_coverage(schedule, call.my_name, call.trip_start,
                                           call.trip_end, call.depart_day_before) :
              PackageOrder(other.package_recommendations)
                = PackageOrder(tripResult.package_recommendations)

---------------------------------------------------------------------------
(* Order of the weekend search output *)

\* C17: the rows of the weekend search are in ascending calendar date of the
\* candidate Saturday, also when the window spans a year boundary, and the rows
\* of one candidate weekend are in ascending ease severity
\* Easy < Moderate < Hard sell < Very hard.
C17_ChronologicalThenEase ==
    WeekendDone =>
        \A i, j \in WeekendRowIndexes :
            i < j =>
                \/ SaturdayOfRow(weekendResult[i]) < SaturdayOfRow(weekendResult[j])
                \/ /\ SaturdayOfRow(weekendResult[i]) = SaturdayOfRow(weekendResult[j])
                   /\ ease_order(weekendResult[i].ease)
                        <= ease_order(weekendResult[j].ease)

---------------------------------------------------------------------------
(* The ease scorer on drawn arguments *)

\* the three weekend types and a text that is none of them
EaseTypes == { "night", "day", "off", "unknown" }
EaseProfiles == { {}, { "B" } }
\* "" is a candidate of None
EaseCandidates == { "", "B", "C" }
EaseShifts == { "CA Vacation", "CA Vacation Week", "CA OB", "CA CV Call" }

InitEase ==
    /\ pureArgs \in [ op : { "ease" }, my_type : EaseTypes, their_type : EaseTypes,
                      prefers_nights : EaseProfiles, candidate : EaseCandidates,
                      their_shifts : SUBSET EaseShifts ]
    /\ schedule = {}
    /\ pc = "ready"
    /\ call = NoCall
    /\ swapResult = <<>>
    /\ weekendResult = <<>>
    /\ conflictResult = FALSE
    /\ tripResult = NoTripCoverage
    /\ easeResult = ""
    /\ typeResult = ""
    /\ shiftTypeResult = ""
    /\ friendsFile = NoFriends
    /\ ledgerFile = NoLedger
    /\ printed = ""
    /\ filterResult = <<>>
    /\ summaryResult = <<>>

ScoreEase ==
    /\ pc = "ready"
    /\ pureArgs.op = "ease"
    /\ easeResult' = calculate_swap_ease(pureArgs.my_type, pureArgs.their_type,
                                         pureArgs.prefers_nights, pureArgs.candidate,
                                         pureArgs.their_shifts)
    /\ pc' = "done"
    /\ UNCHANGED <<schedule, call, swapResult, weekendResult, conflictResult,
                   tripResult, pureArgs, typeResult,
                   shiftTypeResult, friendsFile, ledgerFile, printed, filterResult,
                   summaryResult>>

NextEase == ScoreEase

SpecEase == InitEase /\ [][NextEase]_vars

EaseDone == pc = "done" /\ pureArgs.op = "ease"

HoldsVacation(shifts) ==
    "CA Vacation" \in shifts \/ "CA Vacation Week" \in shifts

\* C18: ease is "Very hard" whenever their_shifts contains CA Vacation or
\* CA Vacation Week, for every my_type, their_type and night preference, equal
\* types included.
C18_VacationVeryHard ==
    (EaseDone /\ HoldsVacation(pureArgs.their_shifts)) => easeResult = "Very hard"

\* equal types, a vacation shift among their_shifts, scored "Very hard"
C18_Witness ==
    /\ EaseDone
    /\ pureArgs.my_type = pureArgs.their_type
    /\ HoldsVacation(pureArgs.their_shifts)
    /\ easeResult = "Very hard"

\* the table of the specification: <<my_type, their_type>> to the ease for a
\* candidate who does not prefer nights and for one who does
EaseTable(my_type, their_type) ==
    CASE my_type = their_type -> <<"Easy", "Easy">>
      [] my_type = "night" /\ their_type = "day" -> <<"Hard sell", "Easy">>
      [] my_type = "day" /\ their_type = "night" -> <<"Easy", "Hard sell">>
      [] my_type = "night" /\ their_type = "off" -> <<"Hard sell", "Moderate">>
      [] my_type = "off" /\ their_type = "night" -> <<"Easy", "Hard sell">>
      [] my_type = "day" /\ their_type = "off" -> <<"Moderate", "Moderate">>
      [] my_type = "off" /\ their_type = "day" -> <<"Easy", "Easy">>
      [] OTHER -> <<"Moderate", "Moderate">>

\* C19: with no vacation shift among their_shifts, ease is the entry of the table
\* for <<my_type, their_type>> and the candidate's night preference; a candidate
\* absent from the profile is scored as not preferring nights; a pair of types
\* outside the table is Moderate.
C19_EaseTable ==
    (EaseDone /\ ~HoldsVacation(pureArgs.their_shifts)) =>
        easeResult =
            EaseTable(pureArgs.my_type, pureArgs.their_type)
                [IF pureArgs.candidate \in pureArgs.prefers_nights THEN 2 ELSE 1]

\* a candidate of the profile is scored differently from an absent one
C19_Witness ==
    /\ EaseDone
    /\ ~HoldsVacation(pureArgs.their_shifts)
    /\ pureArgs.candidate \in pureArgs.prefers_nights
    /\ pureArgs.my_type = "night" /\ pureArgs.their_type = "off"
    /\ easeResult = "Moderate"

---------------------------------------------------------------------------
(* The weekend classifier on drawn arguments *)

\* call shifts, day-work shifts, an unavailable shift and a name of no set
ClassifyShifts ==
    { "CA CV Call", "CA CLI Day Call", "CA OB", "CA SICU", "CA Vacation",
      "CA Lecture" }

InitClassify ==
    /\ pureArgs \in [ op : { "classify" }, sat_shifts : SUBSET ClassifyShifts,
                      sun_shifts : SUBSET ClassifyShifts ]
    /\ schedule = {}
    /\ pc = "ready"
    /\ call = NoCall
    /\ swapResult = <<>>
    /\ weekendResult = <<>>
    /\ conflictResult = FALSE
    /\ tripResult = NoTripCoverage
    /\ easeResult = ""
    /\ typeResult = ""
    /\ shiftTypeResult = ""
    /\ friendsFile = NoFriends
    /\ ledgerFile = NoLedger
    /\ printed = ""
    /\ filterResult = <<>>
    /\ summaryResult = <<>>

ClassifyWeekend ==
    /\ pc = "ready"
    /\ pureArgs.op = "classify"
    /\ typeResult' = classify_weekend_type(pureArgs.sat_shifts, pureArgs.sun_shifts)
    /\ pc' = "done"
    /\ UNCHANGED <<schedule, call, swapResult, weekendResult, conflictResult,
                   tripResult, pureArgs, easeResult,
                   shiftTypeResult, friendsFile, ledgerFile, printed, filterResult,
                   summaryResult>>

NextClassify == ClassifyWeekend

SpecClassify == InitClassify /\ [][NextClassify]_vars

ClassifyDone == pc = "done" /\ pureArgs.op = "classify"

\* a shift of the category is held on the Saturday or on the Sunday
WeekendHolds(category) ==
    \E s \in category : s \in pureArgs.sat_shifts \/ s \in pureArgs.sun_shifts

\* C20: classify_weekend is night iff a shift of the Saturday or of the Sunday is
\* a call shift, else day iff one is a day-work shift, else off; a weekend with a
\* call and a day-work shift is night and two empty sets give off.
C20_ClassifyWeekend ==
    ClassifyDone =>
        /\ typeResult = "night" <=> WeekendHolds(CALL_SHIFTS)
        /\ typeResult = "day" <=> (~WeekendHolds(CALL_SHIFTS) /\ WeekendHolds(DAY_SHIFTS))
        /\ typeResult = "off" <=> (~WeekendHolds(CALL_SHIFTS) /\ ~WeekendHolds(DAY_SHIFTS))
        /\ (pureArgs.sat_shifts = {} /\ pureArgs.sun_shifts = {}) => typeResult = "off"

\* a day-work shift on the Saturday and a call shift on the Sunday: night
C20_Witness ==
    /\ ClassifyDone
    /\ pureArgs.sat_shifts \cap DAY_SHIFTS # {}
    /\ pureArgs.sat_shifts \cap CALL_SHIFTS = {}
    /\ pureArgs.sun_shifts \cap CALL_SHIFTS # {}
    /\ typeResult = "night"

---------------------------------------------------------------------------
(* The shift classifier of the schedule summary on drawn rows *)

\* mutant: an unavailable shift is not told from an unknown one
classify_shift_NoOff(shift) ==
    IF shift \in CALL_SHIFTS THEN "call"
    ELSE IF shift \in DAY_SHIFTS THEN "day"
    ELSE "other"

\* classify_shift of get_schedule_summary
classify_shift(shift) ==
    IF shift \in CALL_SHIFTS THEN "call"
    ELSE IF shift \in DAY_SHIFTS THEN "day"
    ELSE IF shift \in UNAVAILABLE_SHIFTS THEN "off"
    ELSE "other"

\* names of no configured set
UnconfiguredShifts ==
    { "CA Lecture", "CA Night Float", "CA OB ", "ca ob", "Faculty OR", "" }
ShiftTypeResidents == { "A", "B" }

InitShiftType ==
    /\ pureArgs \in [ op : { "classify_shift" }, name : ShiftTypeResidents,
                      shift : ConfiguredShifts \cup UnconfiguredShifts ]
    /\ schedule = {}
    /\ pc = "ready"
    /\ call = NoCall
    /\ swapResult = <<>>
    /\ weekendResult = <<>>
    /\ conflictResult = FALSE
    /\ tripResult = NoTripCoverage
    /\ easeResult = ""
    /\ typeResult = ""
    /\ shiftTypeResult = ""
    /\ friendsFile = NoFriends
    /\ ledgerFile = NoLedger
    /\ printed = ""
    /\ filterResult = <<>>
    /\ summaryResult = <<>>

\* my_shifts['shift'].apply(classify_shift) on one row
ClassifyShift ==
    /\ pc = "ready"
    /\ pureArgs.op = "classify_shift"
    /\ shiftTypeResult' = classify_shift(pureArgs.shift)
    /\ pc' = "done"
    /\ UNCHANGED <<schedule, call, swapResult, weekendResult, conflictResult,
                   tripResult, pureArgs, easeResult, typeResult, friendsFile,
                   ledgerFile, printed, filterResult, summaryResult>>

NextShiftType == ClassifyShift

SpecShiftType == InitShiftType /\ [][NextShiftType]_vars

ShiftTypeDone == pc = "done" /\ pureArgs.op = "classify_shift"

\* the four sets a name may belong to at most one of
PartitionSets == { CALL_SHIFTS, DAY_SHIFTS, UNAVAILABLE_SHIFTS, ICU_SHIFTS }

\* C21: the configured taxonomy is a partition: no shift name belongs to more
\* than one of CALL_SHIFTS, DAY_SHIFTS, UNAVAILABLE_SHIFTS and ICU_SHIFTS, and
\* NIGHT_CALL_SHIFTS is a subset of CALL_SHIFTS.
\* It is stated of the name drawn, which ranges over every configured name.
C21_TaxonomyPartition ==
    pureArgs.op = "classify_shift" =>
        /\ \A S, T \in PartitionSets :
              S # T => ~(pureArgs.shift \in S /\ pureArgs.shift \in T)
        /\ pureArgs.shift \in NIGHT_CALL_SHIFTS => pureArgs.shift \in CALL_SHIFTS

\* C25: classification is total and single-valued: the result is call for a
\* name of CALL_SHIFTS, else day for a name of DAY_SHIFTS, else off for a name of
\* UNAVAILABLE_SHIFTS, else other; a name of no configured set is other; the
\* result is the same whoever holds the shift.
C25_ClassifyTotal ==
    ShiftTypeDone =>
        LET shift == pureArgs.shift
        IN  /\ shiftTypeResult \in { "call", "day", "off", "other" }
            /\ shiftTypeResult = "call" <=> shift \in CALL_SHIFTS
            /\ shiftTypeResult = "day" <=>
                  (shift \notin CALL_SHIFTS /\ shift \in DAY_SHIFTS)
            /\ shiftTypeResult = "off" <=>
                  ( /\ shift \notin CALL_SHIFTS /\ shift \notin DAY_SHIFTS
                    /\ shift \in UNAVAILABLE_SHIFTS )
            /\ shift \notin ConfiguredShifts => shiftTypeResult = "other"

\* a name of no configured set whose text differs from a configured name by its
\* case only, classified other
C25_Witness ==
    /\ ShiftTypeDone
    /\ pureArgs.shift = "ca ob"
    /\ shiftTypeResult = "other"

---------------------------------------------------------------------------
(* Single-shift search on a schedule reaching past the default window: the   *)
(* targets are days 0 and 1, the rows lie 13 to 16 days away                 *)

WindowDates == { -14, -13, 14, 15, 16 }
WindowShifts == { "CA CV Call", "CA OB" }

InitWindow ==
    /\ schedule \in SubsetsUpTo(Rows(SwapResidents, WindowDates, WindowShifts), MaxRows)
    /\ pc = "ready"
    /\ call = NoCall
    /\ swapResult = <<>>
    /\ weekendResult = <<>>
    /\ conflictResult = FALSE
    /\ tripResult = NoTripCoverage
    /\ pureArgs = NoArgs
    /\ easeResult = ""
    /\ typeResult = ""
    /\ shiftTypeResult = ""
    /\ friendsFile = NoFriends
    /\ ledgerFile = NoLedger
    /\ printed = ""
    /\ filterResult = <<>>
    /\ summaryResult = <<>>

NextWindow == SwapSearch

SpecWindow == InitWindow /\ [][NextWindow]_vars

\* C22: with no explicit target_date_range every returned row has their_date
\* between the target date - 14 days and the target date + 14 days, both ends
\* included; a shift outside that window is never returned.
C22_DefaultWindow ==
    (SwapDone /\ call.target_date_range = <<>>) =>
        \A i \in SwapRowIndexes :
            /\ call.my_date - 14 <= swapResult[i].their_date
            /\ swapResult[i].their_date <= call.my_date + 14

\* a row exactly 14 days after the target is returned while the candidate also
\* holds a shift 15 days or more after it
C22_Witness ==
    /\ SwapDone /\ call.target_date_range = <<>>
    /\ \E i \in SwapRowIndexes :
          /\ swapResult[i].their_date = call.my_date + 14
          /\ \E r \in ResidentTable :
                /\ r.name = swapResult[i].candidate
                /\ r.date > call.my_date + 14

\* C24: the rows returned by the single-shift search are in non-decreasing order
\* of their_date.
C24_SortedByDate ==
    SwapDone =>
        \A i, j \in SwapRowIndexes :
            i < j => swapResult[i].their_date <= swapResult[j].their_date

\* three rows are returned, of two residents' shifts on more than one date
C24_Witness ==
    /\ SwapDone
    /\ Len(swapResult) = 3
    /\ swapResult[1].their_date < swapResult[3].their_date

---------------------------------------------------------------------------
(* Weekend search with every window of 0 to 4 weeks on each side.  Day 33 is *)
(* Saturday 2025-01-04; four weeks away are 2024-12-07 and 2025-02-01.       *)

EnumerateDates == { 33, 40 }
EnumerateShifts == { "CA OB", "CA CV Call" }
EnumerateSaturdays == { 33 }
EnumerateWeeks == 0..4

InitEnumerate ==
    /\ schedule \in SubsetsUpTo(Rows(WeekendResidents, EnumerateDates, EnumerateShifts),
                                MaxRows)
    /\ pc = "ready"
    /\ call = NoCall
    /\ swapResult = <<>>
    /\ weekendResult = <<>>
    /\ conflictResult = FALSE
    /\ tripResult = NoTripCoverage
    /\ pureArgs = NoArgs
    /\ easeResult = ""
    /\ typeResult = ""
    /\ shiftTypeResult = ""
    /\ friendsFile = NoFriends
    /\ ledgerFile = NoLedger
    /\ printed = ""
    /\ filterResult = <<>>
    /\ summaryResult = <<>>

\* find_weekend_swap(ca_schedule, name, [saturday, sunday], look_back_weeks,
\* look_forward_weeks), each window given on its own
WeekendSearchWindow ==
    /\ pc = "ready"
    /\ \E my_name \in WeekendRequesters, saturday \in EnumerateSaturdays,
          look_back_weeks \in EnumerateWeeks, look_forward_weeks \in EnumerateWeeks :
          /\ weekendResult' \in find_weekend_swap(schedule, my_name,
                                                  <<saturday, saturday + 1>>,
                                                  look_back_weeks, look_forward_weeks,
                                                  {})
          /\ call' = [ op |-> "weekend", my_name |-> my_name,
                       weekend_dates |-> <<saturday, saturday + 1>>,
                       look_back_weeks |-> look_back_weeks,
                       look_forward_weeks |-> look_forward_weeks,
                       prefers_nights |-> {} ]
    /\ pc' = "done"
    /\ UNCHANGED <<schedule, swapResult, conflictResult, tripResult,
                   pureArgs, easeResult, typeResult,
                   shiftTypeResult, friendsFile, ledgerFile, printed, filterResult,
                   summaryResult>>

NextEnumerate == WeekendSearchWindow

SpecEnumerate == InitEnumerate /\ [][NextEnumerate]_vars

\* the label of the weekend of a Saturday
WeekendLabel(saturday) == <<strftime_md(saturday), strftime_md(saturday + 1)>>

\* the Saturdays k weeks from the target, k from -look_back_weeks to
\* +look_forward_weeks, k # 0
SaturdaysAround ==
    { call.weekend_dates[1] + 7 * k :
        k \in ((0 - call.look_back_weeks)..call.look_forward_weeks) \ { 0 } }

\* every resident holds day-work shifts only, so that no pairing is filtered out
OnlyTradeableDayWork ==
    \A r \in ResidentTable : r.shift \in DAY_SHIFTS \ ICU_SHIFTS

\* C23: for a target Saturday and the following Sunday the weekend search
\* examines exactly the weekends k weeks from the target, k from
\* -look_back_weeks to +look_forward_weeks and k # 0 (8 weekends by default):
\* every row names one of them, every one of them gives a row for each other
\* resident when nothing filters the pairing, the target weekend is never
\* named, and the search ends.
C23_WeekendEnumeration ==
    ( /\ WeekendDone
      /\ weekday(call.weekend_dates[1]) = 5
      /\ call.weekend_dates[2] = call.weekend_dates[1] + 1 ) =>
        /\ \A i \in WeekendRowIndexes :
              /\ \E saturday \in SaturdaysAround :
                    weekendResult[i].their_weekend = WeekendLabel(saturday)
              /\ weekendResult[i].their_weekend # WeekendLabel(call.weekend_dates[1])
        /\ OnlyTradeableDayWork =>
              \A c \in { r.name : r \in ResidentTable } \ { call.my_name },
                 saturday \in SaturdaysAround :
                  \E i \in WeekendRowIndexes :
                      /\ weekendResult[i].candidate = c
                      /\ weekendResult[i].their_weekend = WeekendLabel(saturday)
        /\ (call.look_back_weeks = 4 /\ call.look_forward_weeks = 4)
              => Cardinality(SaturdaysAround) = 8

\* the default window: eight weekends examined, a row for each
C23_Witness ==
    /\ WeekendDone
    /\ call.look_back_weeks = 4 /\ call.look_forward_weeks = 4
    /\ OnlyTradeableDayWork
    /\ Len(weekendResult) = 8

---------------------------------------------------------------------------
(* Structure of the trip coverage result *)

\* the default-window single-shift searches for one of the requester's shifts
TripSearchesFor(date, shift) ==
    find_swap_candidates(schedule, call.my_name, date, shift, <<>>, "")

\* the entries of blocking_shifts for <<date, shift>>
BlockingEntries(key) ==
    { i \in BlockingIndexes :
        /\ tripResult.blocking_shifts[i].date = key[1]
        /\ tripResult.blocking_shifts[i].shift = key[2] }

HasShiftKey(key) ==
    \E k \in ShiftKeyIndexes : tripResult.candidates_by_shift[k].key = key

\* C26: every key of candidates_by_shift is a requester shift listed as blocking
\* travel; there is a key for every blocking shift whose single-shift search
\* returns a candidate; the value of a key is the default-window single-shift
\* search result for that shift; a shift that does not block travel is never
\* searched; with no requester shift in the checked range the three fields are
\* empty.
C26_TripResultStructure ==
    TripDone =>
        /\ \A k \in ShiftKeyIndexes :
              LET item == tripResult.candidates_by_shift[k]
              IN  /\ [ name |-> call.my_name, date |-> item.key[1],
                       shift |-> item.key[2] ] \in TripMyRows
                  /\ \E i \in BlockingEntries(item.key) :
                        tripResult.blocking_shifts[i].blocks_travel = TRUE
                  /\ item.candidates # <<>>
                  /\ item.candidates \in TripSearchesFor(item.key[1], item.key[2])
                  /\ \A j \in ShiftKeyIndexes :
                        j # k => tripResult.candidates_by_shift[j].key # item.key
        /\ \A i \in BlockingIndexes :
              LET entry == tripResult.blocking_shifts[i]
              IN  IF entry.blocks_travel
                  THEN <<>> \notin TripSearchesFor(entry.date, entry.shift)
                          => HasShiftKey(<<entry.date, entry.shift>>)
                  ELSE ~HasShiftKey(<<entry.date, entry.shift>>)
        /\ TripMyRows = {} => tripResult = NoTripCoverage

\* a shift that does not block travel, for which the single-shift search would
\* return a candidate, is listed beside a blocking shift that has a key
C26_Witness ==
    /\ TripDone
    /\ Len(tripResult.candidates_by_shift) >= 1
    /\ \E i \in BlockingIndexes :
          /\ tripResult.blocking_shifts[i].blocks_travel = FALSE
          /\ <<>> \notin TripSearchesFor(tripResult.blocking_shifts[i].date,
                                         tripResult.blocking_shifts[i].shift)

---------------------------------------------------------------------------
(* Friends-only single-shift search *)

\* the elements of a list
Elements(list) == { list[i] : i \in 1..Len(list) }

\* filter_by_friends(df): friends_data is what load_friends() returns; the value
\* is the returned frame with the warning printed ("" when none is)
filter_by_friends(df, friends_data) ==
    LET friends == friends_data.friends
    IN  IF friends = <<>>
        THEN [ df |-> df, printed |-> "Warning: No friends in friends.json" ]
        ELSE [ df |-> SelectSeq(df, LAMBDA row : row.candidate \in Elements(friends)),
               printed |-> "" ]

FriendsOnlyResidents == { "A", "B", "C" }
FriendsOnlyDates == { 0, 1 }
FriendsOnlyShifts == { "CA CV Call", "CA OB" }
\* the friends lists of the stored profile
FriendsOnlyLists == { <<>>, <<"B">>, <<"C">>, <<"B", "C">> }

InitFriendsOnly ==
    /\ schedule \in SubsetsUpTo(Rows(FriendsOnlyResidents, FriendsOnlyDates,
                                     FriendsOnlyShifts), MaxRows)
    /\ friendsFile \in { [ friends |-> friends, notes |-> <<>>,
                           prefers_nights |-> <<>> ] : friends \in FriendsOnlyLists }
    /\ pc = "ready"
    /\ call = NoCall
    /\ swapResult = <<>>
    /\ weekendResult = <<>>
    /\ conflictResult = FALSE
    /\ tripResult = NoTripCoverage
    /\ pureArgs = NoArgs
    /\ easeResult = ""
    /\ typeResult = ""
    /\ shiftTypeResult = ""
    /\ ledgerFile = NoLedger
    /\ printed = ""
    /\ filterResult = <<>>
    /\ summaryResult = <<>>

\* the swap command with --friends-only: the search, then filter_by_friends on
\* a result that is not empty
SwapSearchFriendsOnly ==
    /\ pc = "ready"
    /\ \E my_name \in SwapRequesters, my_date \in SwapTargetDates,
          my_shift \in SwapTargetShifts :
          \E candidates \in find_swap_candidates(schedule, my_name, my_date, my_shift,
                                                 <<>>, "") :
              /\ swapResult' = candidates
              /\ IF candidates # <<>>
                 THEN /\ filterResult' = filter_by_friends(candidates, friendsFile).df
                      /\ printed' = filter_by_friends(candidates, friendsFile).printed
                 ELSE /\ filterResult' = candidates
                      /\ printed' = ""
              /\ call' = [ op |-> "swap_friends_only", my_name |-> my_name,
                           my_date |-> my_date, my_shift |-> my_shift,
                           target_date_range |-> <<>>, target_shift_type |-> "" ]
    /\ pc' = "done"
    /\ UNCHANGED <<schedule, weekendResult, conflictResult, tripResult,
                   pureArgs, easeResult, typeResult, shiftTypeResult, friendsFile,
                   ledgerFile, summaryResult>>

NextFriendsOnly == SwapSearchFriendsOnly

SpecFriendsOnly == InitFriendsOnly /\ [][NextFriendsOnly]_vars

FriendsOnlyDone == pc = "done" /\ call.op = "swap_friends_only"

\* C27: filter_by_friends keeps only friends: for every friends list, the empty
\* one included, every row of its result has a candidate of the friends list,
\* and every input row whose candidate is a friend is kept.
C27_OnlyFriendsKept ==
    (FriendsOnlyDone /\ swapResult # <<>>) =>
        /\ \A i \in 1..Len(filterResult) :
              filterResult[i].candidate \in Elements(friendsFile.friends)
        /\ \A i \in SwapRowIndexes :
              swapResult[i].candidate \in Elements(friendsFile.friends)
              => \E j \in 1..Len(filterResult) : filterResult[j] = swapResult[i]

---------------------------------------------------------------------------
(* Golden weekends and the next weekend off of the schedule summary *)

\* find_golden_weekends: the Saturdays from current to end_date, as the loop
\* generates them
RECURSIVE weekends(_, _)
weekends(current, end_date) ==
    IF current > end_date THEN <<>>
    ELSE LET days_until_saturday == (5 - weekday(current)) % 7
             saturday == current + days_until_saturday
         IN  IF saturday > end_date THEN <<>>
             ELSE <<saturday>> \o weekends(saturday + 7, end_date)

off_compatible ==
    { "CA Vacation", "CA Vacation Week", "CA Post Call", "CA Home Post Call",
      "CA Excused" }

\* the shift names a resident holds on the Saturday or the Sunday
weekend_shift_types(ca_schedule, resident, saturday) ==
    { r.shift : r \in { q \in ca_schedule : /\ q.name = resident
                                            /\ q.date \in { saturday, saturday + 1 } } }

\* find_golden_weekends: the row appended to results for one weekend
\* (friends_off is kept as the set of its names)
golden_weekend_result(ca_schedule, my_name, friends, saturday) ==
    LET all_residents == { r.name : r \in ca_schedule } \ { my_name }
        residents_off ==
            { resident \in all_residents :
                weekend_shift_types(ca_schedule, resident, saturday)
                    \cap (CALL_SHIFTS \cup DAY_SHIFTS) = {} }
        friends_off == residents_off \cap friends
    IN  [ weekend |-> <<strftime_md(saturday), strftime_md(saturday + 1)>>,
          saturday |-> saturday,
          sunday |-> saturday + 1,
          i_am_off |-> weekend_shift_types(ca_schedule, my_name, saturday)
                           \subseteq off_compatible,
          friends_off |-> friends_off,
          friends_off_count |-> Cardinality(friends_off),
          all_residents_off_count |-> Cardinality(residents_off) ]

\* find_golden_weekends: the rows of results, before they are sorted
golden_weekend_results(sched, my_name, look_forward_weeks, friends_data, today) ==
    LET generated == weekends(today, today + 7 * look_forward_weeks)
    IN  { golden_weekend_result(CaSchedule(sched), my_name,
                                Elements(friends_data.friends), generated[i]) :
            i \in 1..Len(generated) }

\* the rows that sort_values('friends_off_count', ascending=False) can put
\* first: a row of the largest count, rows of equal counts in any order
sort_values_first(rows) ==
    { r \in rows : \A q \in rows : q.friends_off_count <= r.friends_off_count }

\* get_schedule_summary: the values stats.next_golden_weekend can take, <<>> for
\* None. The rows with i_am_off are selected from the sorted frame, which keeps
\* them sorted, and iloc[0] takes the first of them.
next_golden_weekend(sched, my_name, friends_data, today) ==
    LET golden_weekends == golden_weekend_results(sched, my_name, 8, friends_data, today)
        my_off_weekends == { r \in golden_weekends : r.i_am_off }
    IN  IF my_off_weekends = {} THEN { <<>> }
        ELSE { <<r.saturday>> : r \in sort_values_first(my_off_weekends) }

SummaryResidents == { "A", "B" }
SummaryDates == { 5, 6, 12 }
SummaryShifts == { "CA OB", "CA Vacation" }
SummaryFriends == { <<>>, <<"B">> }
\* the days the summary is asked on: a Monday and a Saturday
SummaryTodays == { 0, 5 }

InitSummary ==
    /\ schedule \in SubsetsUpTo(Rows(SummaryResidents, SummaryDates, SummaryShifts),
                                MaxRows)
    /\ friendsFile \in { [ friends |-> friends, notes |-> <<>>,
                           prefers_nights |-> <<>> ] : friends \in SummaryFriends }
    /\ pc = "ready"
    /\ call = NoCall
    /\ swapResult = <<>>
    /\ weekendResult = <<>>
    /\ conflictResult = FALSE
    /\ tripResult = NoTripCoverage
    /\ pureArgs = NoArgs
    /\ easeResult = ""
    /\ typeResult = ""
    /\ shiftTypeResult = ""
    /\ ledgerFile = NoLedger
    /\ printed = ""
    /\ filterResult = <<>>
    /\ summaryResult = <<>>

\* get_schedule_summary(schedule, my_name) on the day today
ScheduleSummary ==
    /\ pc = "ready"
    /\ \E my_name \in SwapRequesters, today \in SummaryTodays :
          /\ summaryResult' \in next_golden_weekend(schedule, my_name, friendsFile, today)
          /\ call' = [ op |-> "get_schedule_summary", my_name |-> my_name,
                       today |-> today ]
    /\ pc' = "done"
    /\ UNCHANGED <<schedule, swapResult, weekendResult, conflictResult, tripResult,
                   pureArgs, easeResult, typeResult, shiftTypeResult, friendsFile,
                   ledgerFile, printed, filterResult>>

NextSummary == ScheduleSummary

SpecSummary == InitSummary /\ [][NextSummary]_vars

SummaryDone == pc = "done" /\ call.op = "get_schedule_summary"

\* the Saturdays of the 8 weeks from the day of the call on which the requester
\* holds nothing but off-compatible shifts on the Saturday and the Sunday
UpcomingOffSaturdays ==
    { d \in call.today .. call.today + 56 :
        /\ weekday(d) = 5
        /\ \A r \in CaSchedule(schedule) :
              (r.name = call.my_name /\ r.date \in { d, d + 1 })
              => r.shift \in off_compatible }

\* C28: stats.next_golden_weekend is the earliest upcoming Saturday, within the
\* 8-week look-ahead, of a weekend on which the requester is off, and None when
\* there is none, however many friends are off on each weekend.
C28_NextGoldenWeekendEarliest ==
    SummaryDone =>
        IF UpcomingOffSaturdays = {} THEN summaryResult = <<>>
        ELSE /\ summaryResult # <<>>
             /\ summaryResult[1] \in UpcomingOffSaturdays
             /\ \A d \in UpcomingOffSaturdays : summaryResult[1] <= d

---------------------------------------------------------------------------
(* The preference profile: friends commands of the CLI and the Friends tab *)

\* list.append(x)
append(list, x) == Append(list, x)

\* list.remove(x): the first occurrence of x is taken out (x is in the list)
RECURSIVE remove(_, _)
remove(list, x) ==
    IF list = <<>> THEN <<>>
    ELSE IF Head(list) = x THEN Tail(list)
    ELSE <<Head(list)>> \o remove(Tail(list), x)

\* notes[name] = note
set_note(notes, name, note) ==
    [ k \in DOMAIN notes \cup { name } |-> IF k = name THEN note ELSE notes[k] ]

\* del notes[name], when name is a key
del_note(notes, name) ==
    IF DOMAIN notes \ { name } = {} THEN <<>>
    ELSE [ k \in DOMAIN notes \ { name } |-> notes[k] ]

FriendNames == { "B", "C" }
\* the note given with a friend: "" when none is
FriendNotes == { "", "met at OB" }
\* longest prefers_nights list followed
MaxNights == 3

InitFriends ==
    /\ schedule = Rows(FriendNames, { 0 }, { "CA OB" })
    /\ friendsFile = NoFriends
    /\ pc = "ready"
    /\ call = NoCall
    /\ swapResult = <<>>
    /\ weekendResult = <<>>
    /\ conflictResult = FALSE
    /\ tripResult = NoTripCoverage
    /\ pureArgs = NoArgs
    /\ easeResult = ""
    /\ typeResult = ""
    /\ shiftTypeResult = ""
    /\ ledgerFile = NoLedger
    /\ printed = ""
    /\ filterResult = <<>>
    /\ summaryResult = <<>>

FriendsUnchanged ==
    UNCHANGED <<schedule, pc, swapResult, weekendResult, conflictResult, tripResult,
                pureArgs, easeResult, typeResult, shiftTypeResult, ledgerFile,
                filterResult, summaryResult>>

\* the profile the friends add command or the Add Friend button saves for a
\* name that is not a friend yet
friend_added(friends_data, name, note, nights) ==
    [ friends |-> append(friends_data.friends, name),
      notes |-> IF note # "" THEN set_note(friends_data.notes, name, note)
                ELSE friends_data.notes,
      prefers_nights |-> IF nights THEN append(friends_data.prefers_nights, name)
                         ELSE friends_data.prefers_nights ]

\* swap_finder.py friends add NAME [--note NOTE]
CliFriendsAdd ==
    /\ \E friend_name \in FriendNames, note \in FriendNotes :
          /\ call' = [ op |-> "friends add", friend_name |-> friend_name,
                       before |-> friendsFile ]
          /\ IF friend_name \notin Elements(friendsFile.friends)
             THEN /\ friendsFile' = friend_added(friendsFile, friend_name, note, FALSE)
                  /\ printed' = "Added to friends list"
             ELSE /\ friendsFile' = friendsFile
                  /\ printed' = "is already in friends list"
    /\ FriendsUnchanged

\* swap_finder.py friends remove NAME
CliFriendsRemove ==
    /\ \E friend_name \in FriendNames :
          /\ call' = [ op |-> "friends remove", friend_name |-> friend_name,
                       before |-> friendsFile ]
          /\ IF friend_name \in Elements(friendsFile.friends)
             THEN /\ friendsFile' =
                        [ friendsFile EXCEPT
                            !.friends = remove(@, friend_name),
                            !.notes = IF friend_name \in DOMAIN @
                                      THEN del_note(@, friend_name) ELSE @ ]
                  /\ printed' = "Removed from friends list"
             ELSE /\ friendsFile' = friendsFile
                  /\ printed' = "not found in friends list"
    /\ FriendsUnchanged

\* Friends tab: the Nights checkbox of a listed friend, set to checked
DashToggleNights ==
    /\ \E friend \in Elements(friendsFile.friends), checked \in BOOLEAN :
          /\ call' = [ op |-> "toggle nights", friend_name |-> friend,
                       before |-> friendsFile ]
          /\ IF checked
             THEN IF friend \notin Elements(friendsFile.prefers_nights)
                  THEN /\ Len(friendsFile.prefers_nights) < MaxNights
                       /\ friendsFile' =
                             [ friendsFile EXCEPT !.prefers_nights = append(@, friend) ]
                  ELSE friendsFile' = friendsFile
             ELSE IF friend \in Elements(friendsFile.prefers_nights)
                  THEN friendsFile' =
                          [ friendsFile EXCEPT !.prefers_nights = remove(@, friend) ]
                  ELSE friendsFile' = friendsFile
    /\ printed' = ""
    /\ FriendsUnchanged

\* Friends tab: the Remove button of a listed friend
DashRemove ==
    /\ \E friend \in Elements(friendsFile.friends) :
          /\ call' = [ op |-> "remove button", friend_name |-> friend,
                       before |-> friendsFile ]
          /\ friendsFile' =
                [ friends |-> remove(friendsFile.friends, friend),
                  notes |-> IF friend \in DOMAIN friendsFile.notes
                            THEN del_note(friendsFile.notes, friend)
                            ELSE friendsFile.notes,
                  prefers_nights |->
                      IF friend \in Elements(friendsFile.prefers_nights)
                      THEN remove(friendsFile.prefers_nights, friend)
                      ELSE friendsFile.prefers_nights ]
    /\ printed' = ""
    /\ FriendsUnchanged

\* Friends tab: the Add Friend button; the select box offers "" and the
\* residents of the schedule who are not friends
DashAddFriend ==
    /\ LET all_residents == { r.name : r \in CaSchedule(schedule) }
           non_friends == all_residents \ Elements(friendsFile.friends)
       IN  \E new_friend \in { "" } \cup non_friends, friend_note \in FriendNotes,
              new_friend_prefers_nights \in BOOLEAN :
              /\ call' = [ op |-> "add friend button", friend_name |-> new_friend,
                           before |-> friendsFile ]
              /\ IF new_friend # ""
                 THEN IF new_friend \notin Elements(friendsFile.friends)
                      THEN /\ new_friend_prefers_nights
                              => Len(friendsFile.prefers_nights) < MaxNights
                           /\ friendsFile' = friend_added(friendsFile, new_friend,
                                                          friend_note,
                                                          new_friend_prefers_nights)
                           /\ printed' = "Added"
                      ELSE /\ friendsFile' = friendsFile
                           /\ printed' = "is already a friend"
                 ELSE /\ friendsFile' = friendsFile
                      /\ printed' = "Please select a resident"
    /\ FriendsUnchanged

NextFriends ==
    \/ CliFriendsAdd
    \/ CliFriendsRemove
    \/ DashToggleNights
    \/ DashRemove
    \/ DashAddFriend

SpecFriends == InitFriends /\ [][NextFriends]_vars

\* no name occurs twice in the list
NoDuplicates(list) ==
    \A i, j \in 1..Len(list) : list[i] = list[j] => i = j

\* C29: after any sequence of friend-add, friend-remove and night-preference
\* toggle operations of the CLI and the dashboard from the empty profile, every
\* name of prefers_nights and every key of notes is in friends, neither friends
\* nor prefers_nights holds a name twice, and adding a name that is already a
\* friend leaves the stored profile unchanged.
C29_ProfileConsistent ==
    /\ Elements(friendsFile.prefers_nights) \subseteq Elements(friendsFile.friends)
    /\ DOMAIN friendsFile.notes \subseteq Elements(friendsFile.friends)
    /\ NoDuplicates(friendsFile.friends)
    /\ NoDuplicates(friendsFile.prefers_nights)
    /\ (/\ call.op \in { "friends add", "add friend button" }
        /\ call.friend_name \in Elements(call.before.friends))
       => friendsFile = call.before

---------------------------------------------------------------------------
(* The swap ledger: ledger add and ledger clear of the CLI *)

\* list.pop(index) leaves this list: index counts from 0, a negative index
\* counts from the end (-len <= index < len)
pop(list, index) ==
    LET i == IF index < 0 THEN index + Len(list) ELSE index
    IN  SubSeq(list, 1, i) \o SubSeq(list, i + 2, Len(list))

\* the debt of ledger add: an option that is not given, or is empty, sets no
\* key, which is written "" here
new_debt(person, direction, shift, date, notes) ==
    [ person |-> person, direction |-> direction, shift |-> shift,
      date |-> date, notes |-> notes ]

\* ledger add: the stored ledger and the message
ledger_add(ledger_data, debt) ==
    [ ledger |-> [ ledger_data EXCEPT !.debts = append(@, debt) ],
      printed |-> "Added" ]

\* ledger clear with no lower limit on the index
ledger_clear_NoLowerLimit(ledger_data, index) ==
    LET debts == ledger_data.debts
    IN  IF index < Len(debts) /\ -Len(debts) <= index
        THEN [ ledger |-> [ ledger_data EXCEPT !.debts = pop(debts, index) ],
               printed |-> "Cleared debt" ]
        ELSE [ ledger |-> ledger_data, printed |-> "Invalid index" ]

\* ledger clear INDEX: the stored ledger and the message
ledger_clear(ledger_data, index) ==
    LET debts == ledger_data.debts
    IN  IF 0 <= index /\ index < Len(debts)
        THEN [ ledger |-> [ ledger_data EXCEPT !.debts = pop(debts, index) ],
               printed |-> "Cleared debt" ]
        ELSE [ ledger |-> ledger_data, printed |-> "Invalid index" ]

\* most debts followed
MaxDebts == 3

LedgerPersons == { "B", "C" }
LedgerDirections == { "owes_me", "i_owe" }
LedgerShifts == { "", "CA OB" }
LedgerIndexes == -2 .. MaxDebts + 1

InitLedger ==
    /\ schedule = {}
    /\ ledgerFile = NoLedger
    /\ pc = "ready"
    /\ call = NoCall
    /\ swapResult = <<>>
    /\ weekendResult = <<>>
    /\ conflictResult = FALSE
    /\ tripResult = NoTripCoverage
    /\ pureArgs = NoArgs
    /\ easeResult = ""
    /\ typeResult = ""
    /\ shiftTypeResult = ""
    /\ friendsFile = NoFriends
    /\ printed = ""
    /\ filterResult = <<>>
    /\ summaryResult = <<>>

LedgerUnchanged ==
    UNCHANGED <<schedule, pc, swapResult, weekendResult, conflictResult, tripResult,
                pureArgs, easeResult, typeResult, shiftTypeResult, friendsFile,
                filterResult, summaryResult>>

\* swap_finder.py ledger add PERSON DIRECTION [--shift SHIFT]
LedgerAdd ==
    /\ Len(ledgerFile.debts) < MaxDebts
    /\ \E person \in LedgerPersons, direction \in LedgerDirections,
          shift \in LedgerShifts :
          LET debt == new_debt(person, direction, shift, "", "")
          IN  /\ ledgerFile' = ledger_add(ledgerFile, debt).ledger
              /\ printed' = ledger_add(ledgerFile, debt).printed
              /\ call' = [ op |-> "ledger add", debt |-> debt, before |-> ledgerFile ]
    /\ LedgerUnchanged

\* swap_finder.py ledger clear INDEX
LedgerClear ==
    /\ \E index \in LedgerIndexes :
          /\ ledgerFile' = ledger_clear(ledgerFile, index).ledger
          /\ printed' = ledger_clear(ledgerFile, index).printed
          /\ call' = [ op |-> "ledger clear", index |-> index, before |-> ledgerFile ]
    /\ LedgerUnchanged

NextLedger ==
    \/ LedgerAdd
    \/ LedgerClear

SpecLedger == InitLedger /\ [][NextLedger]_vars

\* C30: ledger add appends exactly one debt at the end and leaves the debts
\* before it and their order as they were; ledger clear i with 0 <= i < len
\* removes exactly the debt at index i and keeps the order of the rest; ledger
\* clear with any other i reports an invalid index and leaves the ledger as it
\* was.
C30_LedgerOperations ==
    LET old == call.before.debts
        new == ledgerFile.debts
    IN  /\ call.op = "ledger add" =>
              /\ Len(new) = Len(old) + 1
              /\ \A k \in 1..Len(old) : new[k] = old[k]
              /\ new[Len(new)] = call.debt
        /\ (call.op = "ledger clear" /\ 0 <= call.index /\ call.index < Len(old)) =>
              /\ Len(new) = Len(old) - 1
              /\ \A k \in 1..Len(new) :
                    new[k] = IF k <= call.index THEN old[k] ELSE old[k + 1]
              /\ printed = "Cleared debt"
        /\ (call.op = "ledger clear" /\ (call.index < 0 \/ call.index >= Len(old))) =>
              /\ ledgerFile = call.before
              /\ printed = "Invalid index"

\* a debt in the middle of three different debts has been cleared
C30_Witness ==
    /\ call.op = "ledger clear"
    /\ call.index = 1
    /\ Len(call.before.debts) = 3
    /\ NoDuplicates(call.before.debts)
    /\ ledgerFile.debts = <<call.before.debts[1], call.before.debts[3]>>

====
